---- MODULE Spec2Model ----
(***************************************************************************)
(* A model of the chefassist-ai service: the rate limiting middleware      *)
(* (app/middleware/rate_limit.py), the generative clients                  *)
(* (app/services/ollama_service.py, app/services/gemini_service.py) and    *)
(* the cache and its keys (app/services/cache_service.py).                 *)
(***************************************************************************)
EXTENDS Integers, Sequences, FiniteSets, TLC

VARIABLES
    rate_limit_per_minute,  \* RateLimitMiddleware.rate_limit_per_minute
    rate_limit_per_hour,    \* RateLimitMiddleware.rate_limit_per_hour
    use_redis,              \* RateLimitMiddleware.use_redis
    now,                    \* the wall clock, in seconds
    requests,               \* RateLimitMiddleware.requests: client -> list of timestamps
    redis_minute,           \* the Redis key ratelimit:<client>:minute
    redis_hour,             \* the Redis key ratelimit:<client>:hour
    admitted,               \* history: the times at which call_next ran for a limited path
    last,                   \* the request dispatch handled last, and its response
    max_retries,            \* settings.ollama_max_retries / settings.gemini_max_retries
    available,              \* is_available(): the client was constructed with its configuration
    call,                   \* the generation call in progress
    enabled,                \* CacheService.enabled
    clock,                  \* the clock of the cache backend, in seconds
    store,                  \* the keys of the cache backend: key -> entry
    written,                \* history: key -> the last set the backend executed
    op,                     \* the cache operation performed last, and its outcome
    keygen,                 \* two calls of CacheService.generate_key and their keys
    recognition,            \* the recognition request handled last, and its outcome
    served,                 \* history: key -> the last result recognition stored in the cache
    recipe,                 \* the recipe operation a route handled last, and its outcome
    reply,                  \* two error responses of one handler, to exceptions that differ in message
    api_key,                \* settings.api_key
    authed,                 \* the request verify_api_key handled last, and what became of it
    extraction,             \* a response text and what _parse_ingredients_response made of it
    suggestion,             \* a generated text, a request, and what suggest_recipes made of them
    tasks,                  \* the requests dispatch is handling concurrently: task -> the await it rests at
    redis_failed,           \* history: a Redis command of one of these requests has raised
    race,                   \* concurrent recognize_ingredients calls for one image: their positions, results and cache writes
    recipe_details          \* a model output, a request, and the RecipeDetailsResponse built from them

rlvars == <<rate_limit_per_minute, rate_limit_per_hour, use_redis, now,
            requests, redis_minute, redis_hour, admitted, last>>

genvars == <<max_retries, available, call>>

cachevars == <<enabled, clock, store, written, op>>

vars == <<rate_limit_per_minute, rate_limit_per_hour, use_redis, now,
          requests, redis_minute, redis_hour, admitted, last,
          max_retries, available, call,
          enabled, clock, store, written, op, keygen, recognition, served, recipe,
          reply,
          api_key,
          authed,
          extraction,
          suggestion,
          tasks, redis_failed,
          race,
          recipe_details>>

\* What the operations of one component leave alone.
recvars == <<recognition, served>>

recipevars == <<recipe>>

errvars == <<reply>>

authvars == <<api_key, authed>>

extractvars == <<extraction>>

suggestvars == <<suggestion>>

taskvars == <<tasks, redis_failed>>

racevars == <<race>>

detailvars == <<recipe_details>>

besideRateLimit ==
    <<genvars, cachevars, keygen, recvars, recipevars, errvars, authvars, extractvars, suggestvars, taskvars, racevars, detailvars>>
besideGenerate ==
    <<rlvars, cachevars, keygen, recvars, recipevars, errvars, authvars, extractvars, suggestvars, taskvars, racevars, detailvars>>
besideCache ==
    <<rlvars, genvars, keygen, recvars, recipevars, errvars, authvars, extractvars, suggestvars, taskvars, racevars, detailvars>>
besideKey ==
    <<rlvars, genvars, cachevars, recvars, recipevars, errvars, authvars, extractvars, suggestvars, taskvars, racevars, detailvars>>
besideRecognition ==
    <<rlvars, keygen, written, op, recipevars, errvars, authvars, extractvars, suggestvars, taskvars, racevars, detailvars>>
besideRecipes ==
    <<rlvars, cachevars, keygen, recvars, errvars, authvars, extractvars, suggestvars, taskvars, racevars, detailvars>>
besideErrors ==
    <<rlvars, genvars, cachevars, keygen, recvars, recipevars, authvars, extractvars, suggestvars, taskvars, racevars, detailvars>>
besideExtraction ==
    <<rlvars, genvars, cachevars, keygen, recvars, recipevars, errvars, authvars, suggestvars, taskvars, racevars, detailvars>>
besideSuggest ==
    <<rlvars, genvars, cachevars, keygen, recvars, recipevars, errvars, authvars, extractvars, taskvars, racevars, detailvars>>
besideConcurrent ==
    <<genvars, cachevars, keygen, recvars, recipevars, errvars, authvars, extractvars, suggestvars, racevars, detailvars>>
besideRace ==
    <<rlvars, keygen, recvars, recipevars, errvars, authvars, extractvars, suggestvars, taskvars, detailvars>>
besideDetails ==
    <<rlvars, genvars, cachevars, keygen, recvars, recipevars, errvars, authvars, extractvars, suggestvars, taskvars, racevars>>
besideAuth ==
    <<rlvars, genvars, cachevars, keygen, recvars, recipevars, errvars, extractvars, suggestvars, taskvars, racevars, detailvars>>

(***************************************************************************)
(* Bounds of the model.                                                    *)
(***************************************************************************)
MaxLog == 2
MaxRetries == 3

\* The instants the clock takes: the start, the minute boundary, the hour
\* boundary and half a minute past it.
Times == {0, 60, 3600, 3630}

Clients == {"ip:10.0.0.1", "api_key:k1"}

\* The configured thresholds <<per minute, per hour>>: the minute threshold
\* reached first, the hour threshold reached first, and an hour threshold
\* below the minute threshold.
Limits == {<<1, 3>>, <<2, 3>>, <<2, 2>>, <<2, 1>>}

(***************************************************************************)
(* Program constants.                                                      *)
(***************************************************************************)
DefaultPerMinute == 60
DefaultPerHour == 1000
DefaultMaxRetries == 2
MinuteWindow == 60
HourWindow == 3600
MinuteTTL == 60
HourTTL == 3600

ExemptPaths == {"/", "/api/ai/health", "/docs", "/redoc", "/openapi.json"}
Paths == ExemptPaths \cup {"/api/ai/suggest-recipes"}

\* Where a Redis check may raise: nowhere (healthy), at the GET of the minute
\* key, or at the GET of the hour key.
CheckFaults == {"healthy", "minute", "hour"}

(***************************************************************************)
(* Redis keys: a counter and the instant at which it expires.              *)
(***************************************************************************)
NoKey == [count |-> 0, expire_at |-> 0]

RedisExists(key, t) == key.count > 0 /\ t < key.expire_at

\* pipe.incr(key); pipe.expire(key, ttl)
RedisIncrExpire(key, ttl, t) ==
    [count |-> (IF RedisExists(key, t) THEN key.count ELSE 0) + 1,
     expire_at |-> t + ttl]

(***************************************************************************)
(* The in-memory backend.                                                  *)
(***************************************************************************)
\* requests[:] = [r for r in requests if now - r < timedelta(hours=1)]
PruneHour(log, t) == SelectSeq(log, LAMBDA r : t - r < HourWindow)

\* A minute count that never lets go of a request.
RecentMinuteForever(log, t) == log

\* recent_minute = [r for r in requests if now - r < timedelta(minutes=1)]
RecentMinute(log, t) == SelectSeq(log, LAMBDA r : t - r < MinuteWindow)

\* A check that lets one request too many through: > where the code has >=.
IsRateLimitedMemoryOffByOne(log, t) ==
    \/ Len(RecentMinute(PruneHour(log, t), t)) > rate_limit_per_minute
    \/ Len(PruneHour(log, t)) > rate_limit_per_hour

\* _is_rate_limited_memory: the verdict (the list is pruned by MemoryPruned)
IsRateLimitedMemory(log, t) ==
    \/ Len(RecentMinute(PruneHour(log, t), t)) >= rate_limit_per_minute
    \/ Len(PruneHour(log, t)) >= rate_limit_per_hour

\* _is_rate_limited_memory: its effect on self.requests
MemoryPruned(reqs, c, t) == [reqs EXCEPT ![c] = PruneHour(reqs[c], t)]

\* _record_request_memory
RecordRequestMemory(reqs, c, t) == [reqs EXCEPT ![c] = Append(reqs[c], t)]

(***************************************************************************)
(* The Redis backend.  fault says where the check raises.                  *)
(***************************************************************************)
\* The body of the try block of _is_rate_limited_redis.
RedisCheckBody(c, fault) ==
    IF fault = "minute"
    THEN [raised |-> TRUE, limited |-> FALSE]
    ELSE IF RedisExists(redis_minute[c], now)
            /\ redis_minute[c].count >= rate_limit_per_minute
    THEN [raised |-> FALSE, limited |-> TRUE]
    ELSE IF fault = "hour"
    THEN [raised |-> TRUE, limited |-> FALSE]
    ELSE [raised |-> FALSE,
          limited |-> RedisExists(redis_hour[c], now)
                      /\ redis_hour[c].count >= rate_limit_per_hour]

\* A Redis check without its except clause: the exception leaves the method.
IsRateLimitedRedisNoExcept(c, fault) ==
    LET body == RedisCheckBody(c, fault) IN
    [error |-> body.raised, fell_back |-> FALSE,
     limited |-> body.limited, requests |-> requests]

\* _is_rate_limited_redis: a raise becomes the in-memory check.
\* error: an exception leaves the method; fell_back: the memory log decided.
IsRateLimitedRedis(c, fault) ==
    LET body == RedisCheckBody(c, fault) IN
    IF body.raised
    THEN [error |-> FALSE, fell_back |-> TRUE,
          limited |-> IsRateLimitedMemory(requests[c], now),
          requests |-> MemoryPruned(requests, c, now)]
    ELSE [error |-> FALSE, fell_back |-> FALSE,
          limited |-> body.limited, requests |-> requests]

\* _is_rate_limited
IsRateLimited(c, fault) ==
    IF use_redis
    THEN IsRateLimitedRedis(c, fault)
    ELSE [error |-> FALSE, fell_back |-> FALSE,
          limited |-> IsRateLimitedMemory(requests[c], now),
          requests |-> MemoryPruned(requests, c, now)]

\* _record_request_redis: the pipeline raises (fails) or is executed.
RecordRequestRedis(reqs, c, fails) ==
    IF fails
    THEN [error |-> FALSE, fell_back |-> TRUE,
          requests |-> RecordRequestMemory(reqs, c, now),
          minute |-> redis_minute, hour |-> redis_hour]
    ELSE [error |-> FALSE, fell_back |-> FALSE,
          requests |-> reqs,
          minute |-> [redis_minute EXCEPT ![c] =
                          RedisIncrExpire(redis_minute[c], MinuteTTL, now)],
          hour |-> [redis_hour EXCEPT ![c] =
                          RedisIncrExpire(redis_hour[c], HourTTL, now)]]

\* _record_request
RecordRequest(reqs, c, fails) ==
    IF use_redis
    THEN RecordRequestRedis(reqs, c, fails)
    ELSE [error |-> FALSE, fell_back |-> FALSE,
          requests |-> RecordRequestMemory(reqs, c, now),
          minute |-> redis_minute, hour |-> redis_hour]

\* A skip list that has lost one of its entries.
IsExemptWithoutDocs(p) == p \in ExemptPaths \ {"/docs"}

\* if request.url.path in [...]: return await call_next(request)
IsExempt(p) == p \in ExemptPaths

(***************************************************************************)
(* dispatch: one request, handled from its arrival to its response.        *)
(* status is 200 when call_next produced the response, 429 for the         *)
(* rejection, 500 when an exception of the limiter backend escaped.        *)
(***************************************************************************)
Response(c, p, status, next, cf, rf) ==
    [client |-> c, path |-> p, status |-> status, called_next |-> next,
     check_fell_back |-> cf, record_fell_back |-> rf]

NoRequest == Response("", "", 0, FALSE, FALSE, FALSE)

\* A rejection that counts the rejected request as well.
RejectedAndRecorded(c, p, chk) ==
    LET rec == RecordRequest(chk.requests, c, FALSE) IN
    [requests |-> rec.requests, minute |-> rec.minute, hour |-> rec.hour,
     recorded |-> TRUE,
     response |-> Response(c, p, 429, FALSE, chk.fell_back, FALSE)]

\* if await self._is_rate_limited(client_id): raise HTTPException(429)
Rejected(c, p, chk) ==
    [requests |-> chk.requests, minute |-> redis_minute, hour |-> redis_hour,
     recorded |-> FALSE,
     response |-> Response(c, p, 429, FALSE, chk.fell_back, FALSE)]

DispatchResult(c, p, checkFault, recordFails) ==
    IF IsExempt(p)
    THEN [requests |-> requests, minute |-> redis_minute, hour |-> redis_hour,
          recorded |-> FALSE,
          response |-> Response(c, p, 200, TRUE, FALSE, FALSE)]
    ELSE
    LET chk == IsRateLimited(c, checkFault) IN
    IF chk.error
    THEN [requests |-> chk.requests, minute |-> redis_minute, hour |-> redis_hour,
          recorded |-> FALSE,
          response |-> Response(c, p, 500, FALSE, FALSE, FALSE)]
    ELSE IF chk.limited
    THEN Rejected(c, p, chk)
    ELSE
    LET rec == RecordRequest(chk.requests, c, recordFails) IN
    IF rec.error
    THEN [requests |-> rec.requests, minute |-> rec.minute, hour |-> rec.hour,
          recorded |-> FALSE,
          response |-> Response(c, p, 500, FALSE, chk.fell_back, FALSE)]
    ELSE [requests |-> rec.requests, minute |-> rec.minute, hour |-> rec.hour,
          recorded |-> TRUE,
          response |-> Response(c, p, 200, TRUE, chk.fell_back, rec.fell_back)]

RECURSIVE SumLen(_, _)
SumLen(f, S) ==
    IF S = {} THEN 0
    ELSE LET c == CHOOSE x \in S : TRUE IN Len(f[c]) + SumLen(f, S \ {c})

\* The number of requests admitted so far, which MaxLog bounds.
NumAdmitted == SumLen(admitted, DOMAIN admitted)

Dispatch(c, p, checkFault, recordFails) ==
    LET r == DispatchResult(c, p, checkFault, recordFails) IN
    /\ r.response.status = 200 /\ ~IsExempt(p) => NumAdmitted < MaxLog
    /\ requests' = r.requests
    /\ redis_minute' = r.minute
    /\ redis_hour' = r.hour
    /\ admitted' = IF r.response.status = 200 /\ ~IsExempt(p)
                   THEN [admitted EXCEPT ![c] = Append(@, now)]
                   ELSE admitted
    /\ last' = r.response
    /\ UNCHANGED <<rate_limit_per_minute, rate_limit_per_hour, use_redis, now>>
    /\ UNCHANGED besideRateLimit

\* Redis deletes a key when its time to live has run out.
RedisExpire(keys, t) ==
    [c \in DOMAIN keys |-> IF RedisExists(keys[c], t) THEN keys[c] ELSE NoKey]

\* Time passes between two requests.
Tick ==
    /\ \E t \in Times : t > now /\ now' = t
    /\ redis_minute' = RedisExpire(redis_minute, now')
    /\ redis_hour' = RedisExpire(redis_hour, now')
    /\ UNCHANGED <<rate_limit_per_minute, rate_limit_per_hour, use_redis,
                   requests, admitted, last>>
    /\ UNCHANGED besideRateLimit

RateLimitInit ==
    /\ \E lim \in Limits : /\ rate_limit_per_minute = lim[1]
                            /\ rate_limit_per_hour = lim[2]
    /\ use_redis \in BOOLEAN
    /\ now = 0
    /\ requests = [c \in Clients |-> <<>>]
    /\ redis_minute = [c \in Clients |-> NoKey]
    /\ redis_hour = [c \in Clients |-> NoKey]
    /\ admitted = [c \in Clients |-> <<>>]
    /\ last = NoRequest

RateLimitNext ==
    \/ \E c \in Clients, p \in Paths :
         \E cf \in (IF use_redis /\ ~IsExempt(p) THEN CheckFaults ELSE {"healthy"}),
            rf \in (IF use_redis /\ ~IsExempt(p) THEN BOOLEAN ELSE {FALSE}) :
              Dispatch(c, p, cf, rf)
    \/ Tick

(***************************************************************************)
(* _get_client_id: the identity dispatch counts a request against, for     *)
(* the requests one network source sends with X-API-Key texts of its       *)
(* choice.  A text is given character by character.                        *)
(***************************************************************************)
\* request.client.host
Host == "10.0.0.1"

\* api_key[:16]
KeyPrefix == 16

SixteenChars ==
    <<"0", "1", "2", "3", "4", "5", "6", "7", "8", "9", "a", "b", "c", "d", "e", "f">>

\* The header texts the source sends: none (or an empty one), two short
\* texts, and two texts of 17 characters that share their first 16.
SentKeys ==
    {<<>>, <<"k", "1">>, <<"k", "2">>,
     SixteenChars \o <<"x">>, SixteenChars \o <<"y">>}

\* The string of a sequence of characters.
RECURSIVE Text(_)
Text(chars) == IF chars = <<>> THEN "" ELSE Head(chars) \o Text(Tail(chars))

\* s[:n]
Take(chars, n) == SubSeq(chars, 1, IF Len(chars) < n THEN Len(chars) ELSE n)

\* _get_client_id
GetClientId(key, host) ==
    IF key # <<>>
    THEN "api_key:" \o Text(Take(key, KeyPrefix))
    ELSE "ip:" \o host

\* The identities the requests of the source are counted against.
Identities == {GetClientId(key, Host) : key \in SentKeys}

\* One request of the source for a limited path, handled by dispatch with
\* the limiter backend healthy.
SourceRequest ==
    \E key \in SentKeys, p \in Paths \ ExemptPaths :
        Dispatch(GetClientId(key, Host), p, "healthy", FALSE)

IdentityInit ==
    /\ \E lim \in Limits : /\ rate_limit_per_minute = lim[1]
                            /\ rate_limit_per_hour = lim[2]
    /\ use_redis \in BOOLEAN
    /\ now = 0
    /\ requests = [c \in Identities |-> <<>>]
    /\ redis_minute = [c \in Identities |-> NoKey]
    /\ redis_hour = [c \in Identities |-> NoKey]
    /\ admitted = [c \in Identities |-> <<>>]
    /\ last = NoRequest

IdentityNext ==
    \/ SourceRequest
    \/ Tick

(***************************************************************************)
(* The generative clients: OllamaService and GeminiService.                *)
(***************************************************************************)
Fns == {"ollama.generate_text", "ollama.generate_with_image",
        "ollama.generate_structured", "gemini.generate_text",
        "gemini.generate_with_image", "gemini.generate_structured"}

IsOllama(fn) == fn \in {"ollama.generate_text", "ollama.generate_with_image",
                        "ollama.generate_structured"}

\* generate_structured runs the retry loop of generate_text.
LoopOf(fn) ==
    IF fn = "ollama.generate_structured" THEN "ollama.generate_text"
    ELSE IF fn = "gemini.generate_structured" THEN "gemini.generate_text"
    ELSE fn

\* What the backend does during one attempt:
\*   ok        it answers with a body that holds the text, the text being JSON
\*   ok_prose  it answers with a body that holds the text, the text not being JSON
\*   deadline  it does not answer before the configured timeout
\*   refused   it refuses the connection (the server is not running)
\*   http_401  it answers 401 Unauthorized
\*   http_503  it answers 503 Service Unavailable
\*   http_504  it answers 504 Gateway Timeout
\*   bad_body  it answers 200 with an empty body or one of an unexpected shape
Faults == {"ok", "ok_prose", "deadline", "refused",
           "http_401", "http_503", "http_504", "bad_body"}

\* The keywords that `any(keyword in error_msg ...)` looks for.
RetryKeywords(fn) ==
    IF fn = "gemini.generate_text"
    THEN {"timeout", "unavailable", "connection", "network", "503", "502"}
    ELSE {"timeout", "unavailable", "connection", "network", "503", "502",
          "failed to connect"}

\* An exception: its class and the retry keywords its lower-cased message holds.
Exc(cls, kws) == [cls |-> cls, kws |-> kws]

\* The exception a failing attempt raises inside the try block.  The text of
\* an httpx status error is "<kind> error '<code> <reason phrase>' for url ...";
\* the texts of the Gemini library start with the status code.
BackendError(fn, fault) ==
    IF fault = "deadline" THEN Exc("asyncio.TimeoutError", {})
    ELSE IF fault = "bad_body" THEN Exc("ValueError", {})
    ELSE IF IsOllama(fn)
    THEN IF fault = "refused" THEN Exc("httpx.ConnectError", {"connection"})
         ELSE IF fault = "http_401" THEN Exc("httpx.HTTPStatusError", {})
         ELSE IF fault = "http_503"
         THEN Exc("httpx.HTTPStatusError", {"503", "unavailable"})
         ELSE Exc("httpx.HTTPStatusError", {"timeout"})
    ELSE IF fault = "refused" THEN Exc("Exception", {"503", "failed to connect"})
         ELSE IF fault = "http_401" THEN Exc("Exception", {})
         ELSE IF fault = "http_503" THEN Exc("Exception", {"503", "unavailable"})
         ELSE Exc("Exception", {})

\* _check_connection: False when the connection is refused, True when the
\* server answers or the check times out.
CheckConnection(fault) == fault # "refused"

\* The try block of one loop iteration: whether it raises, what it raises,
\* and the requests it sends (GET /api/tags, POST or generate_content).
TryBody(fn, fault, attempt) ==
    IF fn = "ollama.generate_text"
    THEN [raised |-> fault \notin {"ok", "ok_prose"},
          exc |-> BackendError(fn, fault),
          gets |-> IF attempt = 0 THEN 1 ELSE 0, posts |-> 1]
    ELSE IF fn = "ollama.generate_with_image"
    THEN IF ~CheckConnection(fault)
         THEN [raised |-> TRUE, exc |-> Exc("ConnectionError", {}),
               gets |-> 1, posts |-> 0]
         ELSE [raised |-> fault \notin {"ok", "ok_prose"},
               exc |-> BackendError(fn, fault), gets |-> 1, posts |-> 1]
    ELSE [raised |-> fault \notin {"ok", "ok_prose"},
          exc |-> BackendError(fn, fault), gets |-> 0, posts |-> 1]

\* await asyncio.sleep(2 ** attempt)
Backoff(attempt) == 2 ^ attempt

\* What an except clause does at the last attempt (raise) and before it (sleep).
RetryOrRaise(attempt, cls) ==
    IF attempt = max_retries - 1
    THEN [retry |-> FALSE, raises |-> cls]
    ELSE [retry |-> TRUE, raises |-> ""]

\* The except clauses of OllamaService.generate_text, chosen by class.
HandleOllamaText(exc, attempt) ==
    IF exc.cls = "asyncio.TimeoutError" THEN RetryOrRaise(attempt, "TimeoutError")
    ELSE IF exc.cls = "httpx.HTTPStatusError" THEN RetryOrRaise(attempt, "ValueError")
    ELSE IF exc.cls = "httpx.ConnectError" THEN RetryOrRaise(attempt, "ConnectionError")
    ELSE IF exc.cls = "httpx.TimeoutException" THEN RetryOrRaise(attempt, "TimeoutError")
    ELSE IF exc.cls = "httpx.RequestError" THEN RetryOrRaise(attempt, "ConnectionError")
    ELSE RetryOrRaise(attempt, "RuntimeError")

\* The except clauses of the other three loops, chosen by the message.
HandleByMessage(fn, exc, attempt) ==
    IF exc.cls = "asyncio.TimeoutError" THEN RetryOrRaise(attempt, "TimeoutError")
    ELSE IF exc.kws \cap RetryKeywords(fn) # {}
    THEN RetryOrRaise(attempt, "ConnectionError")
    ELSE [retry |-> FALSE, raises |-> exc.cls]

Handle(fn, exc, attempt) ==
    IF fn = "ollama.generate_text"
    THEN HandleOllamaText(exc, attempt)
    ELSE HandleByMessage(fn, exc, attempt)

\* json.loads(response) in generate_structured: a dict when the text is
\* JSON, json.JSONDecodeError turned into ValueError when it is not, and
\* TypeError when the loop returned None.
ParseJson(result, fault) ==
    IF result = "text" THEN (IF fault = "ok" THEN "dict" ELSE "ValueError")
    ELSE "TypeError"

\* What the caller gets.  generate_text and generate_with_image hand on the
\* outcome of the loop.  generate_structured parses a returned text and lets
\* an exception of generate_text pass its except clauses; in GeminiService
\* the name json is local to the method (import json follows the call of
\* generate_text), so evaluating `except json.JSONDecodeError` while handling
\* that exception raises UnboundLocalError.
Finish(fn, result, fault) ==
    IF fn = "ollama.generate_structured"
    THEN IF result \in {"text", "None"} THEN ParseJson(result, fault)
         ELSE result
    ELSE IF fn = "gemini.generate_structured"
    THEN IF result \in {"text", "None"} THEN ParseJson(result, fault)
         ELSE "UnboundLocalError"
    ELSE result

\* An availability check that always passes.
IsAvailableAlways == TRUE

\* is_available
IsAvailable == available

Idle == [fn |-> "", pc |-> "idle", plan |-> <<>>, attempts |-> 0, gets |-> 0,
         posts |-> 0, sleeps |-> <<>>, result |-> "", text_from |-> 0,
         in_flight |-> FALSE]

\* Whether the backend operation of an attempt is still executing when the
\* attempt ends.  asyncio.wait_for cancels what it awaits at the timeout:
\* the coroutine of the httpx POST stops, the executor thread that runs
\* generate_content does not.
LeftRunning(fn, fault) == fault = "deadline" /\ ~IsOllama(fn)

\* The call begins: the availability check, and the loop entered or skipped.
\* plan[k] is what the backend does during attempt k.
StartCall(fn, plan) ==
    IF ~IsAvailable
    THEN [Idle EXCEPT !.fn = fn, !.pc = "done", !.plan = plan,
                      !.result = "RuntimeError"]
    ELSE IF max_retries = 0
    THEN [Idle EXCEPT !.fn = fn, !.pc = "done", !.plan = plan,
                      !.result = Finish(fn, "None", "")]
    ELSE [Idle EXCEPT !.fn = fn, !.pc = "running", !.plan = plan]

GenCall ==
    /\ call.pc = "idle"
    /\ \E fn \in Fns, plan \in [1..max_retries -> Faults] :
         call' = StartCall(fn, plan)
    /\ UNCHANGED <<max_retries, available>>
    /\ UNCHANGED besideGenerate

\* One iteration of `for attempt in range(max_retries)`.
GenAttempt ==
    /\ call.pc = "running"
    /\ LET attempt == call.attempts
           fault == call.plan[attempt + 1]
           loop == LoopOf(call.fn)
           body == TryBody(loop, fault, attempt)
           after == [call EXCEPT !.attempts = attempt + 1,
                                 !.gets = @ + body.gets,
                                 !.posts = @ + body.posts,
                                 !.in_flight = LeftRunning(loop, fault)]
       IN  IF ~body.raised
           THEN call' = [after EXCEPT !.pc = "done",
                                      !.result = Finish(call.fn, "text", fault),
                                      !.text_from = attempt + 1]
           ELSE LET h == Handle(loop, body.exc, attempt) IN
                IF ~h.retry
                THEN call' = [after EXCEPT !.pc = "done",
                                           !.result = Finish(call.fn, h.raises, fault)]
                ELSE IF attempt + 1 < max_retries
                THEN call' = [after EXCEPT !.sleeps = Append(@, Backoff(attempt))]
                ELSE call' = [after EXCEPT !.sleeps = Append(@, Backoff(attempt)),
                                           !.pc = "done",
                                           !.result = Finish(call.fn, "None", fault)]
    /\ UNCHANGED <<max_retries, available>>
    /\ UNCHANGED besideGenerate

\* The caller has the result; the client is ready for the next call.
GenReturn ==
    /\ call.pc = "done"
    /\ call' = Idle
    /\ UNCHANGED <<max_retries, available>>
    /\ UNCHANGED besideGenerate

GenInit ==
    /\ max_retries \in 0..MaxRetries
    /\ available \in BOOLEAN
    /\ call = Idle

GenNext ==
    \/ GenCall
    \/ GenAttempt
    \/ GenReturn

(***************************************************************************)
(* The values CacheService stores, and their JSON texts (the Redis client  *)
(* is created with decode_responses=True).                                 *)
(***************************************************************************)
\* A Python value: its type, its text when it is a scalar, its elements when
\* it is a container.  An element is a string; kt and k are the type and the
\* text of its key in a dict and are empty in a list or tuple.
PyValue(t, s, items) == [t |-> t, s |-> s, items |-> items]
Elem(kt, k, v) == [kt |-> kt, k |-> k, v |-> v]

PyNone == PyValue("NoneType", "", <<>>)
PyBool(b) == PyValue("bool", IF b THEN "True" ELSE "False", <<>>)

\* The values of the JSON data model: null, booleans, numbers, strings,
\* lists, and dicts with string keys.
JsonValues ==
    { PyNone, PyBool(FALSE), PyValue("int", "0", <<>>),
      PyValue("str", "", <<>>),
      PyValue("list", "", <<Elem("", "", "egg"), Elem("", "", "milk")>>),
      PyValue("dict", "", <<Elem("str", "name", "egg")>>) }

\* Values json.dumps(value, default=str) accepts that are outside that model:
\* a tuple, a dict with an int key, a datetime.
OtherValues ==
    { PyValue("tuple", "", <<Elem("", "", "egg"), Elem("", "", "milk")>>),
      PyValue("dict", "", <<Elem("int", "1", "egg")>>),
      PyValue("datetime", "2024-01-01 00:00:00", <<>>) }

Values == JsonValues \cup OtherValues

\* bool(value), as in `if cached_result:`
Truthy(v) ==
    IF v.t = "NoneType" THEN FALSE
    ELSE IF v.t = "bool" THEN v.s = "True"
    ELSE IF v.t = "int" THEN v.s # "0"
    ELSE IF v.t = "str" THEN v.s # ""
    ELSE IF v.t \in {"list", "tuple", "dict"} THEN v.items # <<>>
    ELSE TRUE

\* A JSON text: its kind, its text when it is a scalar, its members.
JsonText(j, s, items) == [j |-> j, s |-> s, items |-> items]

\* An array keeps the elements; an object keeps each key as a string.
JsonMembers(items) == [i \in DOMAIN items |-> [k |-> items[i].k, v |-> items[i].v]]

\* json.dumps(value, default=str): a tuple is written as an array, the keys of
\* a dict are written as strings, and str() is applied to any other object.
JsonDumps(v) ==
    IF v.t = "NoneType" THEN JsonText("null", "", <<>>)
    ELSE IF v.t = "bool"
    THEN JsonText("bool", IF v.s = "True" THEN "true" ELSE "false", <<>>)
    ELSE IF v.t = "int" THEN JsonText("number", v.s, <<>>)
    ELSE IF v.t = "str" THEN JsonText("string", v.s, <<>>)
    ELSE IF v.t \in {"list", "tuple"} THEN JsonText("array", "", JsonMembers(v.items))
    ELSE IF v.t = "dict" THEN JsonText("object", "", JsonMembers(v.items))
    ELSE JsonText("string", v.s, <<>>)

\* json.loads(text): an array becomes a list, an object a dict with str keys.
JsonLoads(d) ==
    IF d.j = "null" THEN PyNone
    ELSE IF d.j = "bool" THEN PyBool(d.s = "true")
    ELSE IF d.j = "number" THEN PyValue("int", d.s, <<>>)
    ELSE IF d.j = "string" THEN PyValue("str", d.s, <<>>)
    ELSE IF d.j = "array"
    THEN PyValue("list", "", [i \in DOMAIN d.items |-> Elem("", "", d.items[i].v)])
    ELSE PyValue("dict", "", [i \in DOMAIN d.items |->
                                  Elem("str", d.items[i].k, d.items[i].v)])

(***************************************************************************)
(* CacheService.generate_key, computed on strings.                         *)
(***************************************************************************)
KeyLimit == 250

RECURSIVE Repeat(_, _)
Repeat(text, n) == IF n = 0 THEN "" ELSE text \o Repeat(text, n - 1)

\* sep.join(parts)
RECURSIVE Join(_, _)
Join(sep, parts) ==
    IF parts = <<>> THEN ""
    ELSE IF Len(parts) = 1 THEN parts[1]
    ELSE parts[1] \o sep \o Join(sep, Tail(parts))

\* The place of a string of the model in Python's order of strings.
StrRank(text) ==
    CASE text = "cuisine" -> 1
      [] text = "egg" -> 2
      [] text = "milk" -> 3
      [] text = "rice" -> 4
      [] text = "tags" -> 5
      [] OTHER -> 6

\* sorted(strings)
Sorted(strings) == SortSeq(strings, LAMBDA a, b : StrRank(a) < StrRank(b))

\* A list that is joined in the order it is given in.
JoinUnsorted(v) == Join(",", [i \in DOMAIN v.items |-> v.items[i].v])

\* ','.join(sorted(str(x) for x in arg))
JoinSorted(v) == Join(",", Sorted([i \in DOMAIN v.items |-> v.items[i].v]))

\* str(arg) of an object that is neither a scalar nor a list.
PyStr(v) ==
    IF v.t = "tuple"
    THEN "(" \o Join(", ", [i \in DOMAIN v.items |-> "'" \o v.items[i].v \o "'"]) \o ")"
    ELSE IF v.t = "dict"
    THEN "{" \o Join(", ", [i \in DOMAIN v.items |->
                 "'" \o v.items[i].k \o "': '" \o v.items[i].v \o "'"]) \o "}"
    ELSE v.s

\* hashlib.md5(text.encode()).hexdigest() and its first 8 digits, as symbols:
\* equal texts have equal digests.
Md5(text) == "md5<" \o text \o ">"
Md5Head(text) == "md5[:8]<" \o text \o ">"

\* The part of the key one argument gives.
KeyPart(v) ==
    IF v.t \in {"str", "int", "float", "bool"} THEN v.s
    ELSE IF v.t = "list" THEN JoinSorted(v)
    ELSE Md5Head(PyStr(v))

\* sorted(kwargs.items()): the names of keyword arguments are distinct.
SortedKwargs(kwargs) == SortSeq(kwargs, LAMBDA a, b : StrRank(a.k) < StrRank(b.k))

\* generate_key(prefix, *args, **kwargs); kwargs in the order of the call.
GenerateKey(prefix, args, kwargs) ==
    LET sorted_kwargs == SortedKwargs(kwargs)
        key_parts == <<prefix>>
                     \o [i \in DOMAIN args |-> KeyPart(args[i])]
                     \o [i \in DOMAIN sorted_kwargs |->
                           sorted_kwargs[i].k \o ":" \o KeyPart(sorted_kwargs[i].v)]
        key == Join(":", key_parts)
    IN  IF Len(key) > KeyLimit THEN prefix \o ":" \o Md5(key) ELSE key

\* The arguments of the model.
Str(text) == PyValue("str", text, <<>>)
ListOf(strings) == PyValue("list", "", [i \in DOMAIN strings |-> Elem("", "", strings[i])])
TupleOf(strings) == PyValue("tuple", "", [i \in DOMAIN strings |-> Elem("", "", strings[i])])
Kw(k, v) == [k |-> k, v |-> v]

ArgLists ==
    { <<>>,
      <<Str("egg")>>,
      <<Str("egg"), ListOf(<<"milk", "egg", "rice">>)>>,
      <<Str("egg"), ListOf(<<"rice", "milk", "egg">>)>>,
      <<ListOf(<<"egg", "egg", "milk">>)>>,
      <<ListOf(<<"egg", "milk", "egg">>)>>,
      <<ListOf(<<"egg", "milk">>)>>,
      <<TupleOf(<<"egg", "milk">>)>>,
      <<Str(Repeat("egg", 84)), ListOf(<<"milk", "egg">>)>>,
      <<Str(Repeat("egg", 84)), ListOf(<<"egg", "milk">>)>> }

KwargLists ==
    { <<>>,
      <<Kw("tags", ListOf(<<"milk", "egg">>)), Kw("cuisine", Str("thai"))>>,
      <<Kw("cuisine", Str("thai")), Kw("tags", ListOf(<<"egg", "milk">>))>>,
      <<Kw("cuisine", Str("thai"))>> }

KeyInputs == [prefix : {"recipes"}, args : ArgLists, kwargs : KwargLists]

NoKeyYet == "(no key yet)"

\* One of the two calls is made.
GenerateKeyA ==
    /\ keygen.key_a = NoKeyYet
    /\ keygen' = [keygen EXCEPT !.key_a =
                     GenerateKey(keygen.a.prefix, keygen.a.args, keygen.a.kwargs)]
    /\ UNCHANGED besideKey

GenerateKeyB ==
    /\ keygen.key_b = NoKeyYet
    /\ keygen' = [keygen EXCEPT !.key_b =
                     GenerateKey(keygen.b.prefix, keygen.b.args, keygen.b.kwargs)]
    /\ UNCHANGED besideKey

KeyInit ==
    \E a \in KeyInputs, b \in KeyInputs :
        keygen = [a |-> a, b |-> b, key_a |-> NoKeyYet, key_b |-> NoKeyYet]

KeyNext ==
    \/ GenerateKeyA
    \/ GenerateKeyB

(***************************************************************************)
(* The requests of RecognitionService and their cache keys.                *)
(***************************************************************************)
\* IngredientRecognitionRequest: "" stands for a field that is None.
ImageUrl == "https://img.example/1.jpg"
ImageBase64 == "iVBORw0KGgo="
Requests == [image_url : {"", ImageUrl}, image_base64 : {"", ImageBase64}]

\* _generate_cache_key
RecognitionKey(request) ==
    IF request.image_url # ""
    THEN GenerateKey("ingredients", <<Str("url"), Str(Md5(request.image_url))>>, <<>>)
    ELSE IF request.image_base64 # ""
    THEN GenerateKey("ingredients", <<Str("base64"), Str(Md5(request.image_base64))>>, <<>>)
    ELSE GenerateKey("ingredients", <<Str("unknown")>>, <<>>)

RecognitionKeys == {RecognitionKey(r) : r \in Requests}

(***************************************************************************)
(* The cache backend and the operations of CacheService.                   *)
(***************************************************************************)
\* The keys, the ttl arguments and the times of the model.
CacheKeys == {"ingredients:url:8a1f", "recipes:egg,milk"}
AllKeys == CacheKeys \cup RecognitionKeys
TTLs == {0, 10}
ClockTimes == {0, 10, 20}

\* A key of the backend: absent, or a text that expires at expire_at.
NoEntry == [present |-> FALSE, text |-> JsonText("null", "", <<>>), expire_at |-> 0]
Live(entry, t) == entry.present /\ t < entry.expire_at

\* The backend at time t: the keys whose ttl has run out are gone.
Expired(st, t) == [k \in DOMAIN st |-> IF Live(st[k], t) THEN st[k] ELSE NoEntry]

\* The outcome of an operation: what it returns, whether an exception leaves
\* it, the commands it sent to the backend, and the backend afterwards.
Outcome(result, raised, calls, st) ==
    [result |-> result, raised |-> raised, calls |-> calls, store |-> st]

\* CacheService.get without its except clause.
CacheGetNoExcept(st, k, fails) ==
    IF ~enabled THEN Outcome(PyNone, FALSE, 0, st)
    ELSE IF fails THEN Outcome(PyNone, TRUE, 1, st)
    ELSE IF Live(st[k], clock) THEN Outcome(JsonLoads(st[k].text), FALSE, 1, st)
    ELSE Outcome(PyNone, FALSE, 1, st)

\* CacheService.get.  The text a live key holds is never empty, so
\* `if value:` is the test for a key that exists.
CacheGet(st, k, fails) ==
    IF ~enabled THEN Outcome(PyNone, FALSE, 0, st)
    ELSE IF fails THEN Outcome(PyNone, FALSE, 1, st)
    ELSE IF Live(st[k], clock) THEN Outcome(JsonLoads(st[k].text), FALSE, 1, st)
    ELSE Outcome(PyNone, FALSE, 1, st)

\* A set that leaves a live key as it is.
CacheSetIfAbsent(st, k, v, ttl, fails) ==
    IF ~enabled THEN Outcome(PyBool(FALSE), FALSE, 0, st)
    ELSE IF fails \/ ttl <= 0 THEN Outcome(PyBool(FALSE), FALSE, 1, st)
    ELSE IF Live(st[k], clock) THEN Outcome(PyBool(FALSE), FALSE, 1, st)
    ELSE Outcome(PyBool(TRUE), FALSE, 1,
                 [st EXCEPT ![k] = [present |-> TRUE, text |-> JsonDumps(v),
                                    expire_at |-> clock + ttl]])

\* A set that stores the key without its ttl.
CacheSetNoExpiry(st, k, v, ttl, fails) ==
    IF ~enabled THEN Outcome(PyBool(FALSE), FALSE, 0, st)
    ELSE IF fails \/ ttl <= 0 THEN Outcome(PyBool(FALSE), FALSE, 1, st)
    ELSE Outcome(PyBool(TRUE), FALSE, 1,
                 [st EXCEPT ![k] = [present |-> TRUE, text |-> JsonDumps(v),
                                    expire_at |-> clock + 1000000]])

\* CacheService.set without its except clause.
CacheSetNoExcept(st, k, v, ttl, fails) ==
    IF ~enabled THEN Outcome(PyBool(FALSE), FALSE, 0, st)
    ELSE IF fails \/ ttl <= 0 THEN Outcome(PyBool(FALSE), TRUE, 1, st)
    ELSE Outcome(PyBool(TRUE), FALSE, 1,
                 [st EXCEPT ![k] = [present |-> TRUE, text |-> JsonDumps(v),
                                    expire_at |-> clock + ttl]])

\* CacheService.set: SETEX key ttl text; the backend rejects a ttl that is
\* not positive, and the except clause turns every error into False.
CacheSet(st, k, v, ttl, fails) ==
    IF ~enabled THEN Outcome(PyBool(FALSE), FALSE, 0, st)
    ELSE IF fails \/ ttl <= 0 THEN Outcome(PyBool(FALSE), FALSE, 1, st)
    ELSE Outcome(PyBool(TRUE), FALSE, 1,
                 [st EXCEPT ![k] = [present |-> TRUE, text |-> JsonDumps(v),
                                    expire_at |-> clock + ttl]])

\* CacheService.delete
CacheDelete(st, k, fails) ==
    IF ~enabled THEN Outcome(PyBool(FALSE), FALSE, 0, st)
    ELSE IF fails THEN Outcome(PyBool(FALSE), FALSE, 1, st)
    ELSE Outcome(PyBool(TRUE), FALSE, 1, [st EXCEPT ![k] = NoEntry])

\* CacheService.exists
CacheExists(st, k, fails) ==
    IF ~enabled THEN Outcome(PyBool(FALSE), FALSE, 0, st)
    ELSE IF fails THEN Outcome(PyBool(FALSE), FALSE, 1, st)
    ELSE Outcome(PyBool(Live(st[k], clock)), FALSE, 1, st)

\* The record of an operation and its outcome.
CacheOp(name, k, fails, out) ==
    [name |-> name, key |-> k, fails |-> fails,
     result |-> out.result, raised |-> out.raised, calls |-> out.calls]

NoOp == [name |-> "", key |-> "", fails |-> FALSE,
         result |-> PyNone, raised |-> FALSE, calls |-> 0]

NotWritten == [present |-> FALSE, value |-> PyNone, at |-> 0, ttl |-> 0]

\* The backend fails only when there is a backend to call.
BackendFaults == IF enabled THEN BOOLEAN ELSE {FALSE}

Get ==
    /\ \E k \in CacheKeys, fails \in BackendFaults :
         LET out == CacheGet(store, k, fails) IN
         /\ op' = CacheOp("get", k, fails, out)
         /\ store' = out.store
    /\ UNCHANGED <<enabled, clock, written>>
    /\ UNCHANGED besideCache

Set ==
    /\ \E k \in CacheKeys, v \in Values, ttl \in TTLs, fails \in BackendFaults :
         LET out == CacheSet(store, k, v, ttl, fails) IN
         /\ op' = CacheOp("set", k, fails, out)
         /\ store' = out.store
         /\ written' = IF out.result = PyBool(TRUE)
                       THEN [written EXCEPT ![k] =
                               [present |-> TRUE, value |-> v, at |-> clock, ttl |-> ttl]]
                       ELSE written
    /\ UNCHANGED <<enabled, clock>>
    /\ UNCHANGED besideCache

Delete ==
    /\ \E k \in CacheKeys, fails \in BackendFaults :
         LET out == CacheDelete(store, k, fails) IN
         /\ op' = CacheOp("delete", k, fails, out)
         /\ store' = out.store
         /\ written' = IF out.result = PyBool(TRUE)
                       THEN [written EXCEPT ![k] = NotWritten]
                       ELSE written
    /\ UNCHANGED <<enabled, clock>>
    /\ UNCHANGED besideCache

Exists ==
    /\ \E k \in CacheKeys, fails \in BackendFaults :
         LET out == CacheExists(store, k, fails) IN
         /\ op' = CacheOp("exists", k, fails, out)
         /\ store' = out.store
    /\ UNCHANGED <<enabled, clock, written>>
    /\ UNCHANGED besideCache

\* Time passes in the backend, which drops the keys whose ttl has run out.
CacheTick ==
    /\ \E t \in ClockTimes :
         /\ t > clock
         /\ clock' = t
         /\ store' = Expired(store, t)
    /\ UNCHANGED <<enabled, written, op>>
    /\ UNCHANGED besideCache

CacheInit ==
    /\ enabled \in BOOLEAN
    /\ clock = 0
    /\ store = [k \in AllKeys |-> NoEntry]
    /\ written = [k \in CacheKeys |-> NotWritten]
    /\ op = NoOp

CacheNext ==
    \/ Get
    \/ Set
    \/ Delete
    \/ Exists
    \/ CacheTick

(***************************************************************************)
(* RecognitionService.recognize_ingredients, with ImageService and         *)
(* OllamaService.generate_with_image.                                      *)
(***************************************************************************)
\* self.cache_ttl = 7 * 24 * 3600
RecognitionTTL == 604800

\* ImageService.download_image: max_retries = 3
DownloadRetries == 3

\* What the image turns out to be:
\*   image        its bytes are obtained and are a valid image under 10 MB
\*   oversize     its bytes are obtained and exceed 10 MB
\*   undecodable  its bytes are obtained and are not an image
\*   timeout      (URL) every GET runs into the HTTP timeout
\*   network      (URL) every GET fails with a network error
\*   http_404     (URL) the server answers 404
\*   bad_base64   (base64) the text has incorrect padding
UrlImages == {"image", "oversize", "undecodable", "timeout", "network", "http_404"}
Base64Images == {"image", "oversize", "undecodable", "bad_base64"}

\* What a step of image acquisition gives: the bytes, or the class of the
\* exception it raises, and the GET requests sent.
Acquired(raises, gets) == [raises |-> raises, gets |-> gets]

\* download_image: a timeout and a network error are retried, every failure
\* ends in ValueError.
DownloadImage(img) ==
    IF img \in {"timeout", "network"} THEN Acquired("ValueError", DownloadRetries)
    ELSE IF img = "http_404" THEN Acquired("ValueError", 1)
    ELSE Acquired("", 1)

\* decode_base64_image
DecodeBase64Image(img) ==
    IF img = "bad_base64" THEN Acquired("ValueError", 0) ELSE Acquired("", 0)

\* validate_image and process_image
ValidateImage(img) == IF img \in {"oversize", "undecodable"} THEN "ValueError" ELSE ""

\* Lines 55-67: the image is fetched by URL when a URL is given, decoded
\* when only the base64 text is given, and then validated.
GetImage(request, img) ==
    LET got == IF request.image_url # "" THEN DownloadImage(img)
               ELSE IF request.image_base64 # "" THEN DecodeBase64Image(img)
               ELSE Acquired("ValueError", 0)
    IN  IF got.raises # "" THEN got
        ELSE Acquired(ValidateImage(img), got.gets)

\* One call of a retry loop from iteration attempt on, the backend doing
\* plan[k] during attempt k: what the loop returns or raises.
RECURSIVE RunLoop(_, _, _)
RunLoop(fn, plan, attempt) ==
    IF attempt >= max_retries THEN "None"
    ELSE LET body == TryBody(fn, plan[attempt + 1], attempt) IN
         IF ~body.raised THEN "text"
         ELSE LET h == Handle(fn, body.exc, attempt) IN
              IF h.retry THEN RunLoop(fn, plan, attempt + 1) ELSE h.raises

\* OllamaService.generate_with_image
GenerateWithImage(plan) ==
    IF ~IsAvailable THEN "RuntimeError"
    ELSE RunLoop("ollama.generate_with_image", plan, 0)

\* The backend behaves the same way during every attempt of a call.
PlanOf(fault) == [k \in 1..max_retries |-> fault]

\* The ingredient lists a response text can hold.
Answers == {"egg 0.9, milk 0.8", "rice 0.95"}
FallbackIngredients == "egg 0.7"

\* A parser that answers with the fallback list when there is no text.
ParseIngredientsOfNone(generated, fault, answer) ==
    IF generated = "None" \/ fault # "ok"
    THEN [raises |-> "", ingredients |-> FallbackIngredients]
    ELSE [raises |-> "", ingredients |-> answer]

\* _parse_ingredients_response: the JSON array of the text, or the names the
\* line heuristic finds at confidence 0.7; re.search raises TypeError when
\* generate_with_image returned None.
ParseIngredients(generated, fault, answer) ==
    IF generated = "None" THEN [raises |-> "TypeError", ingredients |-> ""]
    ELSE IF fault = "ok" THEN [raises |-> "", ingredients |-> answer]
    ELSE [raises |-> "", ingredients |-> FallbackIngredients]

\* result.dict() with from_cache added
CacheData(ingredients) ==
    PyValue("dict", "", <<Elem("str", "ingredients", ingredients),
                          Elem("str", "processing_time", "1.2"),
                          Elem("str", "from_cache", "False")>>)

\* cached_result["ingredients"]
IngredientsOf(v) ==
    LET found == {i \in DOMAIN v.items : v.items[i].k = "ingredients"}
    IN  IF found = {} THEN "" ELSE v.items[CHOOSE i \in found : TRUE].v

\* An exception handler that answers 504 to a connection failure too.
RecognitionStatusTimeoutOnly(cls, kws) ==
    IF cls \in {"TimeoutError", "ConnectionError"} THEN 504
    ELSE IF cls = "ValueError" THEN 400
    ELSE IF kws \cap {"api key", "authentication"} # {} THEN 401
    ELSE IF "timeout" \in kws THEN 504
    ELSE 500

\* The except clauses of recognize_ingredients: the status of the
\* HTTPException raised for an exception of class cls whose lower-cased
\* message holds the keywords kws.
RecognitionStatus(cls, kws) ==
    IF cls = "TimeoutError" THEN 504
    ELSE IF cls = "ConnectionError" THEN 503
    ELSE IF cls = "ValueError" THEN 400
    ELSE IF kws \cap {"api key", "authentication"} # {} THEN 401
    ELSE IF "timeout" \in kws THEN 504
    ELSE 500

\* The keywords of the handler in the messages of the exceptions that reach
\* it: none of "Ollama AI is not available. ...", "Client error '401
\* Unauthorized' for url ...", "expected string or bytes-like object ...".
MessageKeywords(cls) == {}

\* The response of recognize_ingredients and what the request used.
Recognition(status, ingredients, from_cache, failure, gets, gens, st) ==
    [status |-> status, ingredients |-> ingredients, from_cache |-> from_cache,
     failure |-> failure, downloads |-> gets, generations |-> gens, store |-> st]

Failed(failure, cls, gets, gens, st) ==
    Recognition(RecognitionStatus(cls, MessageKeywords(cls)), "", FALSE,
                failure, gets, gens, st)

\* Lines 55-111: the image, the generation, the parse and the cache write.
\* cacheOn is self.cache.enabled.
RecognizeFresh(request, img, fault, answer, setFails, cacheOn, st) ==
    LET key == RecognitionKey(request)
        image == GetImage(request, img)
    IN  IF image.raises # ""
        THEN Failed(IF request.image_url = "" /\ request.image_base64 = ""
                    THEN "no image"
                    ELSE IF img \in {"oversize", "undecodable", "bad_base64"}
                    THEN "invalid image"
                    ELSE "download",
                    image.raises, image.gets, 0, st)
        ELSE LET generated == GenerateWithImage(PlanOf(fault)) IN
             IF generated \notin {"text", "None"}
             THEN Failed("generation " \o generated, generated, image.gets, 1, st)
             ELSE LET parsed == ParseIngredients(generated, fault, answer) IN
                  IF parsed.raises # ""
                  THEN Failed("parse", parsed.raises, image.gets, 1, st)
                  ELSE LET out == IF cacheOn
                                  THEN CacheSet(st, key, CacheData(parsed.ingredients),
                                                RecognitionTTL, setFails)
                                  ELSE Outcome(PyBool(FALSE), FALSE, 0, st)
                       IN  IF out.raised
                           THEN Failed("cache", "Exception", image.gets, 1, out.store)
                           ELSE Recognition(200, parsed.ingredients, FALSE, "",
                                            image.gets, 1, out.store)

\* A handler that never asks the cache.
RecognizeAlwaysFresh(request, img, fault, answer, getFails, setFails, cacheOn, st) ==
    RecognizeFresh(request, img, fault, answer, setFails, cacheOn, st)

\* recognize_ingredients: the cache is asked first.
Recognize(request, img, fault, answer, getFails, setFails, cacheOn, st) ==
    LET key == RecognitionKey(request)
        hit == IF cacheOn THEN CacheGet(st, key, getFails)
               ELSE Outcome(PyNone, FALSE, 0, st)
    IN  IF hit.raised THEN Failed("cache", "Exception", 0, 0, st)
        ELSE IF cacheOn /\ Truthy(hit.result)
        THEN Recognition(200, IngredientsOf(hit.result), TRUE, "", 0, 0, st)
        ELSE RecognizeFresh(request, img, fault, answer, setFails, cacheOn, st)

\* A request and what its environment does while it is handled: the image
\* it names, what the generative backend does during every attempt, the
\* ingredients the backend's text holds, and whether the cache backend
\* raises at every command.
RecognitionInputs ==
    { [request |-> r, img |-> i, fault |-> f, answer |-> a, cache_down |-> d] :
        r \in Requests, i \in UrlImages \cup Base64Images, f \in Faults,
        a \in Answers, d \in BackendFaults }

\* Inputs that differ only where the handler cannot tell are given once.
CanHappen(in) ==
    /\ in.img \in (IF in.request.image_url # "" /\ in.request.image_base64 # ""
                   THEN {"image"}
                   ELSE IF in.request.image_url # "" THEN UrlImages
                   ELSE IF in.request.image_base64 # "" THEN Base64Images
                   ELSE {"image"})
    /\ in.img # "image" => in.fault = "ok" /\ in.answer = "rice 0.95"
    /\ in.request.image_url = "" => in.fault = "ok"
    /\ in.request.image_url = "" => in.answer = "rice 0.95"
    /\ in.request.image_base64 # "" => in.answer = "rice 0.95"
    /\ in.fault # "ok" => in.answer = "rice 0.95"
    /\ in.cache_down => enabled

NoRecognition ==
    [request |-> [image_url |-> "", image_base64 |-> ""], img |-> "", fault |-> "",
     answer |-> "", cache_down |-> FALSE, status |-> 0, ingredients |-> "", from_cache |-> FALSE,
     failure |-> "", downloads |-> 0, generations |-> 0]

NotServed == [present |-> FALSE, ingredients |-> "", at |-> 0]

\* The responses whose cache entry is younger than cache_ttl at time t.
Recent(history, t) ==
    [k \in DOMAIN history |->
        IF history[k].present /\ t < history[k].at + RecognitionTTL
        THEN history[k] ELSE NotServed]

\* One request, handled from its arrival to its response.
RecognizeIngredients ==
    /\ \E in \in RecognitionInputs :
         /\ CanHappen(in)
         /\ \E out \in {Recognize(in.request, in.img, in.fault, in.answer,
                                   in.cache_down, in.cache_down, enabled, store)},
                key \in {RecognitionKey(in.request)} :
                /\ recognition' =
                       [request |-> in.request, img |-> in.img, fault |-> in.fault,
                        answer |-> in.answer, cache_down |-> in.cache_down, status |-> out.status,
                        ingredients |-> out.ingredients,
                        from_cache |-> out.from_cache, failure |-> out.failure,
                        downloads |-> out.downloads,
                        generations |-> out.generations]
                /\ store' = out.store
                /\ served' = IF out.store[key] # store[key]
                             THEN [served EXCEPT ![key] =
                                     [present |-> TRUE, ingredients |-> out.ingredients,
                                      at |-> clock]]
                             ELSE served
    /\ UNCHANGED <<enabled, clock, max_retries, available, call>>
    /\ UNCHANGED besideRecognition

\* Time passes between two requests.
RecognitionTimes == {0, 3600, 604800}

RecognitionTick ==
    /\ \E t \in RecognitionTimes :
         /\ t > clock
         /\ clock' = t
         /\ store' = Expired(store, t)
         /\ served' = Recent(served, t)
    /\ UNCHANGED <<enabled, max_retries, available, call, recognition>>
    /\ UNCHANGED besideRecognition

RecognitionInit ==
    /\ enabled \in BOOLEAN
    /\ clock = 0
    /\ store = [k \in AllKeys |-> NoEntry]
    /\ written = [k \in CacheKeys |-> NotWritten]
    /\ op = NoOp
    /\ max_retries \in {0, DefaultMaxRetries}
    /\ available \in BOOLEAN
    /\ call = Idle
    /\ recognition = NoRecognition
    /\ served = [k \in RecognitionKeys |-> NotServed]

RecognitionNext ==
    \/ RecognizeIngredients
    \/ RecognitionTick

(***************************************************************************)
(* The recipe routes: suggest_recipes, generate_recipe_details and         *)
(* personalize_suggestions, each over the RecipeService method of its name *)
(* and GeminiService.generate_text.                                        *)
(***************************************************************************)
RecipeOperations ==
    {"suggest_recipes", "generate_recipe_details", "personalize_suggestions"}

\* GeminiService.generate_text
GeminiGenerateText(plan) ==
    IF ~IsAvailable THEN "RuntimeError"
    ELSE RunLoop("gemini.generate_text", plan, 0)

\* _parse_recipes_response and _parse_recipe_details_response: the exception
\* raised for the text, "" when it holds the JSON asked for.  re.search
\* raises TypeError for None, a text without JSON ends in ValueError.
ParseRecipes(generated, fault) ==
    IF generated = "None" THEN "TypeError"
    ELSE IF fault = "ok" THEN ""
    ELSE "ValueError"

\* The method of RecipeService: the exception that leaves it ("" when it
\* returns its response); `except Exception: raise` passes every one on.
RecipeServiceRaises(operation, fault) ==
    LET generated == GeminiGenerateText(PlanOf(fault)) IN
    IF generated \notin {"text", "None"} THEN generated
    ELSE ParseRecipes(generated, fault)

\* The route: `except Exception as e: raise HTTPException(status_code=500)`.
RouteStatus(raises) ==
    IF raises = "" THEN 200 ELSE 500

NoRecipe == [operation |-> "", fault |-> "", raises |-> "", status |-> 0]

\* One request to a recipe route, from its arrival to its response.
RecipeRequest ==
    /\ \E operation \in RecipeOperations, fault \in Faults :
         \E raises \in {RecipeServiceRaises(operation, fault)} :
            recipe' = [operation |-> operation, fault |-> fault,
                       raises |-> raises, status |-> RouteStatus(raises)]
    /\ UNCHANGED genvars
    /\ UNCHANGED besideRecipes

RecipesInit ==
    /\ max_retries \in 0..MaxRetries
    /\ available \in BOOLEAN
    /\ call = Idle
    /\ recipe = NoRecipe

RecipesNext ==
    \/ RecipeRequest

(***************************************************************************)
(* The error responses: the exception handlers of the application and the  *)
(* clauses of the routes and services that build the HTTPException.        *)
(***************************************************************************)
\* The messages of an exception no clause anticipates.  None of them holds
\* a keyword of the generic clause of recognize_ingredients.
Messages ==
    {"'NoneType' object has no attribute 'get'",
     "connect to db://admin:s3cret@10.0.0.5 refused",
     "[Errno 13] Permission denied: '/srv/app/.env'"}

InternalClasses == {"RuntimeError", "TypeError", "KeyError"}

\* Where the exception is raised: inside RecognitionService, in the
\* recognition route around it, inside RecipeService under one of the three
\* recipe routes, or outside every route.
Origins ==
    {"recognition_service", "recognition_route", "suggest_recipes",
     "generate_recipe_details", "personalize_suggestions", "unhandled"}

\* ErrorResponse(...).dict() without its timestamp.
ErrorBody(status, code, message, details) ==
    [status |-> status, code |-> code, message |-> message, details |-> details]

\* http_exception_handler
HttpExceptionHandler(status, detail) ==
    ErrorBody(status, "HTTP_" \o ToString(status),
              IF detail = "" THEN "An error occurred" ELSE detail, "None")

\* general_exception_handler
GeneralExceptionHandler(cls, message) ==
    ErrorBody(500, "INTERNAL_SERVER_ERROR", "An unexpected error occurred",
              "Please try again later or contact support")

\* The detail of the HTTPException a route or service raises for an
\* exception it did not anticipate.
DetailPrefix(origin) ==
    IF origin \in {"recognition_service", "recognition_route"}
    THEN "Recognition failed: "
    ELSE IF origin = "suggest_recipes" THEN "Recipe suggestion failed: "
    ELSE IF origin = "generate_recipe_details" THEN "Recipe generation failed: "
    ELSE "Personalization failed: "

\* The response to an exception of class cls with the message given,
\* raised at origin.
ErrorResponse(origin, cls, message) ==
    IF origin = "unhandled" THEN GeneralExceptionHandler(cls, message)
    ELSE IF origin = "recognition_service"
    THEN HttpExceptionHandler(RecognitionStatus(cls, MessageKeywords(cls)),
                              DetailPrefix(origin) \o message)
    ELSE HttpExceptionHandler(500, DetailPrefix(origin) \o message)

NoReply ==
    [origin |-> "", cls |-> "", first |-> "", second |-> "",
     first_response |-> ErrorBody(0, "", "", ""),
     second_response |-> ErrorBody(0, "", "", "")]

\* Two requests fail at the same place with exceptions of the same class
\* that differ at most in their message.
InternalErrors ==
    /\ \E origin \in Origins, cls \in InternalClasses, m1 \in Messages, m2 \in Messages :
         reply' = [origin |-> origin, cls |-> cls, first |-> m1, second |-> m2,
                   first_response |-> ErrorResponse(origin, cls, m1),
                   second_response |-> ErrorResponse(origin, cls, m2)]
    /\ UNCHANGED besideErrors

ErrorsInit == reply = NoReply

ErrorsNext ==
    \/ InternalErrors

(***************************************************************************)
(* verify_api_key, the dependency of the four POST routes.                 *)
(***************************************************************************)
PostRoutes ==
    {"/api/ai/recognize-ingredients", "/api/ai/suggest-recipes",
     "/api/ai/generate-recipe-details", "/api/ai/personalize-suggestions"}

\* api_info declares no dependency.
Routes == PostRoutes \cup {"/api/ai/"}

\* settings.api_key: "" leaves the check off.
ConfiguredKeys == {"", "sk-live-1", "sk-live-2"}

\* The X-API-Key header: absent (None), or its text.
Header(present, value) == [present |-> present, value |-> value]
Headers ==
    {Header(FALSE, "")} \cup
    {Header(TRUE, v) : v \in {"", "sk-live-1", "sk-live-2", "SK-LIVE-1"}}

Verified(status, detail, identity) ==
    [status |-> status, detail |-> detail, identity |-> identity]

\* A check that only asks for the header to be there.
VerifyApiKeyPresence(configured, header) ==
    IF configured = "" THEN Verified(0, "", "dev-mode")
    ELSE IF ~header.present \/ header.value = ""
    THEN Verified(401, "API key required. Please provide X-API-Key header.", "")
    ELSE Verified(0, "", header.value)

\* verify_api_key: status 0 when it returns the identity.
VerifyApiKey(configured, header) ==
    IF configured = "" THEN Verified(0, "", "dev-mode")
    ELSE IF ~header.present \/ header.value = ""
    THEN Verified(401, "API key required. Please provide X-API-Key header.", "")
    ELSE IF header.value # configured THEN Verified(401, "Invalid API key", "")
    ELSE Verified(0, "", header.value)

NoAuth ==
    [path |-> "", header |-> Header(FALSE, ""), status |-> 0, identity |-> "",
     invoked |-> FALSE]

\* One request to a route: the dependency is resolved first, and the body
\* of the route (the call of its service, which succeeds or fails) runs
\* only when the dependency returned.
AuthRequest ==
    /\ \E path \in Routes, header \in Headers, fails \in BOOLEAN :
         \E v \in {IF path \in PostRoutes THEN VerifyApiKey(api_key, header)
                   ELSE Verified(0, "", "")} :
            /\ v.status # 0 => ~fails
            /\ authed' = [path |-> path, header |-> header,
                          status |-> IF v.status # 0 THEN v.status
                                     ELSE IF fails THEN 500 ELSE 200,
                          identity |-> v.identity,
                          invoked |-> v.status = 0 /\ path \in PostRoutes]
    /\ UNCHANGED api_key
    /\ UNCHANGED besideAuth

AuthInit ==
    /\ api_key \in ConfiguredKeys
    /\ authed = NoAuth

AuthNext ==
    \/ AuthRequest

(***************************************************************************)
(* RecognitionService._parse_ingredients_response and _fallback_parse, on  *)
(* response texts given line by line, each line token by token.            *)
(***************************************************************************)
\* A JSON value of a field of an item; a number n stands for n / 100.
Absent == [t |-> "absent", s |-> "", n |-> 0]
JNull == [t |-> "null", s |-> "", n |-> 0]
JStr(s) == [t |-> "str", s |-> s, n |-> 0]
JNum(n) == [t |-> "num", s |-> "", n |-> n]

\* An element of a JSON array: an object with some of the four fields, or a
\* string.
Object(name, confidence, quantity, unit) ==
    [k |-> "object", s |-> "", name |-> name, confidence |-> confidence,
     quantity |-> quantity, unit |-> unit]
Scalar(s) ==
    [k |-> "string", s |-> s, name |-> Absent, confidence |-> Absent,
     quantity |-> Absent, unit |-> Absent]

\* The elements the model puts into arrays.
Items ==
    {Object(JStr("tomato"), JNum(95), JStr("2"), JStr("pieces")),
     Object(JStr("onion"), JNum(80), Absent, JNull),
     Object(JStr("garlic"), Absent, Absent, Absent),
     Object(JStr("milk"), JStr("0.9"), Absent, Absent),
     Object(JStr("salt"), JStr("high"), Absent, Absent),
     Object(JStr("oil"), JNum(150), Absent, Absent),
     Object(JStr("egg"), JNull, Absent, Absent),
     Object(JStr("rice"), JNum(90), JNum(200), Absent),
     Scalar("pepper")}

\* A line of the text: its tokens, and for a line that is one JSON value
\* the value (the elements of an array).
ProseLine(tokens) == [kind |-> "prose", tokens |-> tokens, items |-> <<>>]
ArrayLine(items) ==
    [kind |-> "array", tokens |-> <<"[", "...", "]">>, items |-> items]
ObjectLine ==
    [kind |-> "object", tokens |-> <<"{", "\"name\": \"egg\"", "}">>,
     items |-> <<>>]
EmptyObjectLine == [kind |-> "object", tokens |-> <<"{", "}">>, items |-> <<>>]
NumberLine == [kind |-> "number", tokens |-> <<"42">>, items |-> <<>>]
\* One JSON object that holds two arrays.
TwoArraysLine ==
    [kind |-> "object",
     tokens |-> <<"{", "\"ingredients\": ", "[", "...", "]", ", \"notes\": ",
                  "[", "...", "]", "}">>,
     items |-> <<>>]

\* Prose and code fences without a bracket; ~~~ stands for the three
\* characters of a markdown fence.
PlainLines ==
    {ProseLine(<<"Here", " ", "are", " ", "the", " ", "ingredients:">>),
     ProseLine(<<" ", "tomato", ",", " ", "2", " ", "pieces", " ">>),
     ProseLine(<<"ok">>),
     ProseLine(<<>>),
     ProseLine(<<"~~~json">>),
     ProseLine(<<"~~~">>)}

\* Prose with a bracketed remark.
BracketLines ==
    {ProseLine(<<"Detected", " ", "items", " ", "[", "high confidence", "]", ":">>)}

JsonLines == {ObjectLine, EmptyObjectLine, NumberLine, TwoArraysLine}

\* The longest array of the texts.
MaxItems == 2

RECURSIVE SeqsUpTo(_, _)
SeqsUpTo(S, n) ==
    IF n = 0 THEN {<<>>}
    ELSE LET shorter == SeqsUpTo(S, n - 1)
         IN  shorter \cup {Append(q, x) : q \in shorter, x \in S}

Arrays == {ArrayLine(items) : items \in SeqsUpTo(Items, MaxItems)}

\* return ingredients[:10]
FallbackCap == 10

\* The i-th line of a long list in prose.
ListLine(i) == ProseLine(<<"item", ToString(i), ",", " ", "1", " ", "cup">>)
LongTexts ==
    {[i \in 1..n |-> ListLine(i)] : n \in (FallbackCap - 1)..(FallbackCap + 1)}

\* The response texts: at most one line before and one line after at most
\* one array, and long lists.
Texts ==
    LET around == {<<>>} \cup
                  {<<l>> : l \in PlainLines \cup BracketLines \cup JsonLines}
    IN  {before \o middle \o after :
            before \in around, after \in around,
            middle \in {<<>>} \cup {<<a>> : a \in Arrays}}
        \cup LongTexts

\* ---- str methods on a line of tokens ----
RECURSIVE LStrip(_)
LStrip(tokens) ==
    IF tokens # <<>> /\ Head(tokens) = " " THEN LStrip(Tail(tokens)) ELSE tokens

RECURSIVE RStrip(_)
RStrip(tokens) ==
    IF tokens # <<>> /\ tokens[Len(tokens)] = " "
    THEN RStrip(SubSeq(tokens, 1, Len(tokens) - 1)) ELSE tokens

\* line.strip()
Strip(tokens) == RStrip(LStrip(tokens))

\* len(line)
RECURSIVE CharLen(_)
CharLen(tokens) ==
    IF tokens = <<>> THEN 0 ELSE Len(Head(tokens)) + CharLen(Tail(tokens))

\* line.split(',')[0]
RECURSIVE FirstField(_)
FirstField(tokens) ==
    IF tokens = <<>> \/ Head(tokens) = "," THEN <<>>
    ELSE <<Head(tokens)>> \o FirstField(Tail(tokens))

\* The text of a line of tokens.
RECURSIVE Concat(_)
Concat(tokens) ==
    IF tokens = <<>> THEN "" ELSE Head(tokens) \o Concat(Tail(tokens))

\* ---- Ingredient ----
None == [some |-> FALSE, s |-> ""]
Some(s) == [some |-> TRUE, s |-> s]

Ingredient(name, confidence, quantity, unit) ==
    [name |-> name, confidence |-> confidence, quantity |-> quantity,
     unit |-> unit]

\* item.get(key, default)
FieldGet(field, default) == IF field.t = "absent" THEN default ELSE field

\* The decimal strings float() accepts, among those of the items.
NumericStrings == {"0.9"}
FloatOfString(s) == 90

\* float(x): "" and the number, or the exception raised.
Float(x) ==
    IF x.t = "num" THEN [raises |-> "", n |-> x.n]
    ELSE IF x.t = "str"
    THEN IF x.s \in NumericStrings THEN [raises |-> "", n |-> FloatOfString(x.s)]
         ELSE [raises |-> "ValueError", n |-> 0]
    ELSE [raises |-> "TypeError", n |-> 0]

\* Optional[str]
OptionalStr(x) == IF x.t = "str" THEN Some(x.s) ELSE None

\* Ingredient(name=item.get('name', ''), confidence=float(item.get(
\* 'confidence', 0.5)), quantity=item.get('quantity'), unit=item.get('unit'))
\* with the validation of the model: name a str, confidence within 0..1,
\* quantity and unit a str or None.
Built(raises, ingredient) == [raises |-> raises, ingredient |-> ingredient]

NoIngredient == Ingredient("", 0, None, None)

MakeIngredient(item) ==
    IF item.k # "object" THEN Built("AttributeError", NoIngredient)
    ELSE LET name == FieldGet(item.name, JStr(""))
             confidence == Float(FieldGet(item.confidence, JNum(50)))
             quantity == FieldGet(item.quantity, JNull)
             unit == FieldGet(item.unit, JNull)
         IN  IF confidence.raises # ""
             THEN Built(confidence.raises, NoIngredient)
             ELSE IF \/ name.t # "str"
                     \/ confidence.n < 0 \/ confidence.n > 100
                     \/ quantity.t \notin {"str", "null"}
                     \/ unit.t \notin {"str", "null"}
             THEN Built("ValidationError", NoIngredient)
             ELSE Built("", Ingredient(name.s, confidence.n,
                                       OptionalStr(quantity), OptionalStr(unit)))

\* What a parser returns or raises.
Parsed(raises, ingredients) == [raises |-> raises, ingredients |-> ingredients]

\* for item in ingredients_data: ingredients.append(Ingredient(...))
ConvertItems(items) ==
    LET built == [i \in DOMAIN items |-> MakeIngredient(items[i])]
        bad == {i \in DOMAIN items : built[i].raises # ""}
    IN  IF bad = {} THEN Parsed("", [i \in DOMAIN items |-> built[i].ingredient])
        ELSE Parsed(built[CHOOSE i \in bad : \A j \in bad : i <= j].raises, <<>>)

\* _fallback_parse
RECURSIVE FallbackRecords(_)
FallbackRecords(text) ==
    IF text = <<>> THEN <<>>
    ELSE LET line == Strip(Head(text).tokens)
             rest == FallbackRecords(Tail(text))
         IN  IF line # <<>> /\ CharLen(line) > 2 /\ Head(line) \notin {"{", "["}
             THEN <<Ingredient(Concat(Strip(FirstField(line))), 70, None, None)>>
                  \o rest
             ELSE rest

FallbackParse(text) ==
    LET records == FallbackRecords(text)
    IN  SubSeq(records, 1, IF Len(records) < FallbackCap THEN Len(records)
                           ELSE FallbackCap)

\* re.search(r'\[.*\]', response_text, re.DOTALL): the lines of the first
\* '[' and of the last ']' of the text, when a ']' follows a '['.
HasToken(line, token) == \E i \in DOMAIN line.tokens : line.tokens[i] = token
OpenLines(text) == {i \in DOMAIN text : HasToken(text[i], "[")}
CloseLines(text) == {i \in DOMAIN text : HasToken(text[i], "]")}
First(S) == CHOOSE i \in S : \A j \in S : i <= j
Last(S) == CHOOSE i \in S : \A j \in S : j <= i

JsonMatch(text) ==
    IF OpenLines(text) # {} /\ CloseLines(text) # {}
       /\ First(OpenLines(text)) <= Last(CloseLines(text))
    THEN [found |-> TRUE, from |-> First(OpenLines(text)),
          to |-> Last(CloseLines(text))]
    ELSE [found |-> FALSE, from |-> 0, to |-> 0]

\* json.loads of the whole text: the lines that are not blank.
NonBlank(text) == SelectSeq(text, LAMBDA line : Strip(line.tokens) # <<>>)

\* The try block of _parse_ingredients_response.
TryParse(text) ==
    LET m == JsonMatch(text) IN
    IF m.found
    THEN IF m.from = m.to /\ text[m.from].kind = "array"
         THEN ConvertItems(text[m.from].items)
         ELSE Parsed("JSONDecodeError", <<>>)
    ELSE LET lines == NonBlank(text) IN
         IF Len(lines) # 1 \/ lines[1].kind = "prose"
         THEN Parsed("JSONDecodeError", <<>>)
         ELSE IF lines[1].kind = "number" THEN Parsed("TypeError", <<>>)
         ELSE IF lines[1].tokens = <<"{", "}">> THEN Parsed("", <<>>)
         ELSE Parsed("AttributeError", <<>>)

\* What json.loads is called with: the match when there is one, the whole
\* text otherwise.
LoadsArguments(text) == IF JsonMatch(text).found THEN <<"match">> ELSE <<"text">>

\* except (json.JSONDecodeError, KeyError, ValueError); pydantic's
\* ValidationError is a ValueError.
CaughtByParse == {"JSONDecodeError", "KeyError", "ValueError", "ValidationError"}

\* _parse_ingredients_response
ParseIngredientsResponse(text) ==
    LET tried == TryParse(text) IN
    IF tried.raises \in CaughtByParse THEN Parsed("", FallbackParse(text))
    ELSE tried

\* The generative client returned a text; the parser is applied to it.
ParseResponse ==
    /\ extraction.pc = "text"
    /\ \E out \in {ParseIngredientsResponse(extraction.text)} :
         extraction' = [extraction EXCEPT !.pc = "parsed", !.raises = out.raises,
                                          !.loads = LoadsArguments(extraction.text),
                                          !.fell_back =
                                              TryParse(extraction.text).raises
                                                  \in CaughtByParse,
                                          !.ingredients = out.ingredients]
    /\ UNCHANGED besideExtraction

ExtractionInit ==
    \E text \in Texts :
        extraction = [pc |-> "text", text |-> text, raises |-> "",
                      ingredients |-> <<>>, loads |-> <<>>, fell_back |-> FALSE]

ExtractionNext ==
    \/ ParseResponse

(***************************************************************************)
(* RecipeService.suggest_recipes after the generative call:                *)
(* _parse_recipes_response, _apply_filters, the sort and the truncation.   *)
(***************************************************************************)
NoInt == [some |-> FALSE, n |-> 0]
SomeInt(n) == [some |-> TRUE, n |-> n]

\* An element of the JSON array of the model: id and cooking_time may be
\* missing; claimed is the match_percentage the model supplies.
RecipeItem(id, name, required, missing, claimed, cooking_time, difficulty,
           cuisine, dietary_info) ==
    [id |-> id, name |-> name, ingredients_required |-> required,
     ingredients_missing |-> missing, match_percentage |-> claimed,
     cooking_time |-> cooking_time, difficulty |-> difficulty,
     cuisine |-> cuisine, dietary_info |-> dietary_info]

RecipeItems ==
    {RecipeItem("r1", "Tomato Pasta", <<"tomato", "pasta", "garlic">>, <<"garlic">>,
                SomeInt(9900), SomeInt(25), "beginner", Some("italian"),
                <<"vegetarian">>),
     RecipeItem("r2", "Omelette", <<"egg", "milk">>, <<>>,
                SomeInt(5000), SomeInt(10), "beginner", Some("french"),
                <<"vegetarian", "gluten-free">>),
     RecipeItem("r3", "Curry", <<"rice", "chicken", "curry">>, <<"chicken", "curry">>,
                NoInt, SomeInt(40), "intermediate", Some("indian"), <<>>),
     RecipeItem("r4", "Salad", <<>>, <<>>,
                SomeInt(10000), SomeInt(0), "beginner", None, <<"vegan">>),
     RecipeItem("r5", "Toast", <<"bread", "egg">>, <<"egg">>,
                NoInt, SomeInt(20), "beginner", Some("italian"), <<"vegetarian">>),
     RecipeItem("r6", "Bruschetta", <<"bread", "tomato">>, <<"bread">>,
                SomeInt(5000), SomeInt(15), "beginner", Some("italian"),
                <<"vegan">>),
     RecipeItem("", "Soup", <<"onion">>, <<>>,
                NoInt, NoInt, "beginner", None, <<>>),
     RecipeItem("r8", "Pancakes", <<"egg">>, <<"milk", "flour">>,
                SomeInt(3300), SomeInt(20), "beginner", Some("french"), <<>>)}

\* The longest array of the generated texts.
MaxRecipes == 3

\* The generated text: a JSON array alone or within prose, or prose
\* without JSON.
Generation(kind, items) == [kind |-> kind, items |-> items]

Generations ==
    {Generation(kind, items) :
        kind \in {"array", "array in prose"},
        items \in SeqsUpTo(RecipeItems, MaxRecipes)}
    \cup {Generation("prose", <<>>)}

\* RecipeFilters; a cuisine, cooking_time or difficulty of None is not
\* supplied, and neither is an empty list.
Filters(dietary_restrictions, cuisine, cooking_time, difficulty,
        exclude_ingredients) ==
    [dietary_restrictions |-> dietary_restrictions, cuisine |-> cuisine,
     cooking_time |-> cooking_time, difficulty |-> difficulty,
     exclude_ingredients |-> exclude_ingredients]

NoFilters == [some |-> FALSE, filters |-> Filters(<<>>, None, NoInt, None, <<>>)]

FilterSets ==
    {[some |-> TRUE, filters |-> Filters(d, c, t, f, x)] :
        d \in {<<>>, <<"vegetarian">>, <<"vegan", "gluten-free">>},
        c \in {None, Some("italian")},
        t \in {NoInt, SomeInt(0), SomeInt(20)},
        f \in {None, Some("beginner")},
        x \in {<<>>, <<"egg", "garlic">>}}
    \cup {NoFilters}

\* max_results: int = Field(default=10, ge=1, le=50)
DefaultMaxResults == 10
MaxResults == {1, 2, DefaultMaxResults}

\* The texts the filters and the ranking are exercised on.
Menus ==
    LET item(id) == CHOOSE r \in RecipeItems : r.id = id
    IN  {Generation("array", <<item("r5"), item("r1"), item("r6")>>),
         Generation("array", <<item("r3"), item("r2"), item("r4")>>),
         Generation("array in prose", <<item("r3"), item("r6"), item("r5")>>)}

SuggestInputs ==
    {[text |-> g, filters |-> NoFilters, max_results |-> DefaultMaxResults] :
        g \in Generations}
    \cup {[text |-> g, filters |-> f, max_results |-> n] :
            g \in Menus, f \in FilterSets, n \in MaxResults}

\* len(required) and len(missing) give the percentage, in hundredths.
MatchPercentage(required, missing) ==
    IF required = <<>> THEN 0
    ELSE ((Len(required) - Len(missing)) * 10000) \div Len(required)

\* Recipe(...) for the element at index idx (from 0), with the validation
\* of the schema: match_percentage within 0..100, cooking_time >= 0.
MakeRecipe(item, idx) ==
    LET pct == MatchPercentage(item.ingredients_required, item.ingredients_missing)
        time == IF item.cooking_time.some THEN item.cooking_time.n ELSE 30
    IN  IF pct < 0 \/ pct > 10000 \/ time < 0
        THEN [raises |-> "ValidationError", recipe |-> item]
        ELSE [raises |-> "",
              recipe |-> [item EXCEPT
                  !.id = IF item.id = "" THEN "recipe_" \o ToString(idx) ELSE item.id,
                  !.match_percentage = SomeInt(pct),
                  !.cooking_time = SomeInt(time)]]

RecipeList(raises, recipes) == [raises |-> raises, recipes |-> recipes]

\* _parse_recipes_response: JSONDecodeError becomes ValueError, the
\* ValidationError of Recipe is not caught.
ParseRecipesResponse(text) ==
    IF text.kind = "prose" THEN RecipeList("ValueError", <<>>)
    ELSE LET made == [i \in DOMAIN text.items |-> MakeRecipe(text.items[i], i - 1)]
             bad == {i \in DOMAIN made : made[i].raises # ""}
         IN  IF bad = {} THEN RecipeList("", [i \in DOMAIN made |-> made[i].recipe])
             ELSE RecipeList(made[First(bad)].raises, <<>>)

Elements(seq) == {seq[i] : i \in DOMAIN seq}

\* The five conditions of _apply_filters; each applies when its filter is
\* truthy.
KeptByFilters(r, f) ==
    /\ f.dietary_restrictions # <<>>
          => Elements(f.dietary_restrictions) \cap Elements(r.dietary_info) # {}
    /\ (f.cuisine.some /\ f.cuisine.s # "") => r.cuisine = f.cuisine
    /\ (f.cooking_time.some /\ f.cooking_time.n # 0)
          => r.cooking_time.n <= f.cooking_time.n
    /\ (f.difficulty.some /\ f.difficulty.s # "") => r.difficulty = f.difficulty.s
    /\ f.exclude_ingredients # <<>>
          => Elements(f.exclude_ingredients) \cap Elements(r.ingredients_required) = {}

\* _apply_filters
ApplyFilters(recipes, f) == SelectSeq(recipes, LAMBDA r : KeptByFilters(r, f))

\* A sort that puts a recipe before those of the same percentage.
RECURSIVE InsertBeforeEqual(_, _)
InsertBeforeEqual(sorted, r) ==
    IF sorted = <<>> THEN <<r>>
    ELSE IF Head(sorted).match_percentage.n > r.match_percentage.n
    THEN <<Head(sorted)>> \o InsertBeforeEqual(Tail(sorted), r)
    ELSE <<r>> \o sorted

\* The place of r in a list sorted by falling percentage: after the recipes
\* of the same percentage.
RECURSIVE InsertAfterEqual(_, _)
InsertAfterEqual(sorted, r) ==
    IF sorted = <<>> THEN <<r>>
    ELSE IF Head(sorted).match_percentage.n >= r.match_percentage.n
    THEN <<Head(sorted)>> \o InsertAfterEqual(Tail(sorted), r)
    ELSE <<r>> \o sorted

\* recipes.sort(key=lambda r: r.match_percentage, reverse=True): stable.
RECURSIVE SortByMatch(_, _)
SortByMatch(sorted, recipes) ==
    IF recipes = <<>> THEN sorted
    ELSE SortByMatch(InsertAfterEqual(sorted, Head(recipes)), Tail(recipes))

\* recipes[:max_results]
Truncate(recipes, n) ==
    SubSeq(recipes, 1, IF Len(recipes) < n THEN Len(recipes) ELSE n)

NoSuggestion(in) ==
    [text |-> in.text, filters |-> in.filters, max_results |-> in.max_results,
     pc |-> "request", raises |-> "", parsed |-> <<>>, filtered |-> <<>>,
     recipes |-> <<>>, total_results |-> 0]

\* suggest_recipes from the generated text on.
SuggestRecipes ==
    /\ suggestion.pc = "request"
    /\ \E out \in {ParseRecipesResponse(suggestion.text)} :
         IF out.raises # ""
         THEN suggestion' = [suggestion EXCEPT !.pc = "raised", !.raises = out.raises]
         ELSE \E filtered \in {IF suggestion.filters.some
                               THEN ApplyFilters(out.recipes, suggestion.filters.filters)
                               ELSE out.recipes} :
                \E ranked \in {Truncate(SortByMatch(<<>>, filtered),
                                        suggestion.max_results)} :
                   suggestion' = [suggestion EXCEPT
                       !.pc = "returned", !.parsed = out.recipes,
                       !.filtered = filtered, !.recipes = ranked,
                       !.total_results = Len(ranked)]
    /\ UNCHANGED besideSuggest

SuggestInit == \E in \in SuggestInputs : suggestion = NoSuggestion(in)

SuggestNext ==
    \/ SuggestRecipes

(***************************************************************************)
(* dispatch under the event loop: several requests of one identity, each   *)
(* a task that runs from one await that suspends it to the next.           *)
(***************************************************************************)
\* The number of tasks.
MaxTasks == 3

TaskIds == 1..MaxTasks

\* The instants at which a task may run.
Instants == {0, 30, 60, 90}

\* The identity of the requests.
TheClient == "ip:10.0.0.1"

\* An await that hands control to the event loop whatever it awaits.
SuspendsAlways(redis) == TRUE

\* Whether `await self._is_rate_limited(...)` and `await
\* self._record_request(...)` hand control to the event loop: they do when
\* they await a Redis call, and run to their return without a switch when
\* they only call the synchronous in-memory method.
Suspends(redis) == redis

\* The request passed the limiter: dispatch goes on to await call_next.
Admit(t, reqs, minute, hour) ==
    /\ requests' = reqs
    /\ redis_minute' = minute
    /\ redis_hour' = hour
    /\ admitted' = [admitted EXCEPT ![TheClient] = Append(@, now)]
    /\ tasks' = [tasks EXCEPT ![t] = "call_next"]

\* raise HTTPException(status_code=429)
Reject(t, reqs) ==
    /\ requests' = reqs
    /\ tasks' = [tasks EXCEPT ![t] = "rejected"]
    /\ UNCHANGED <<redis_minute, redis_hour, admitted>>

\* The check found the request within the limits: _record_request begins,
\* and rests at its await when that suspends.
ThenRecord(t, reqs) ==
    IF Suspends(use_redis)
    THEN /\ requests' = reqs
         /\ tasks' = [tasks EXCEPT ![t] = "record"]
         /\ UNCHANGED <<redis_minute, redis_hour, admitted>>
    ELSE Admit(t, RecordRequestMemory(reqs, TheClient, now), redis_minute, redis_hour)

\* _is_rate_limited_memory, followed by the rest of dispatch up to its next
\* await that suspends.
MemoryCheck(t) ==
    IF IsRateLimitedMemory(requests[TheClient], now)
    THEN Reject(t, MemoryPruned(requests, TheClient, now))
    ELSE ThenRecord(t, MemoryPruned(requests, TheClient, now))

\* dispatch from its start to the first await that suspends.
DispatchStart(t) ==
    /\ tasks[t] = "start"
    /\ IF use_redis
       THEN /\ tasks' = [tasks EXCEPT ![t] = "get_minute"]
            /\ UNCHANGED <<requests, redis_minute, redis_hour, admitted>>
       ELSE MemoryCheck(t)
    /\ UNCHANGED <<rate_limit_per_minute, rate_limit_per_hour, use_redis, now, last>>
    /\ UNCHANGED redis_failed
    /\ UNCHANGED besideConcurrent

\* minute_count = await self.redis_client.get(minute_key) returns or raises.
GotMinute(t, fails) ==
    /\ tasks[t] = "get_minute"
    /\ IF fails
       THEN MemoryCheck(t)
       ELSE IF RedisExists(redis_minute[TheClient], now)
               /\ redis_minute[TheClient].count >= rate_limit_per_minute
       THEN Reject(t, requests)
       ELSE /\ tasks' = [tasks EXCEPT ![t] = "get_hour"]
            /\ UNCHANGED <<requests, redis_minute, redis_hour, admitted>>
    /\ UNCHANGED <<rate_limit_per_minute, rate_limit_per_hour, use_redis, now, last>>
    /\ redis_failed' = (redis_failed \/ fails)
    /\ UNCHANGED besideConcurrent

\* hour_count = await self.redis_client.get(hour_key) returns or raises.
GotHour(t, fails) ==
    /\ tasks[t] = "get_hour"
    /\ IF fails
       THEN MemoryCheck(t)
       ELSE IF RedisExists(redis_hour[TheClient], now)
               /\ redis_hour[TheClient].count >= rate_limit_per_hour
       THEN Reject(t, requests)
       ELSE ThenRecord(t, requests)
    /\ UNCHANGED <<rate_limit_per_minute, rate_limit_per_hour, use_redis, now, last>>
    /\ redis_failed' = (redis_failed \/ fails)
    /\ UNCHANGED besideConcurrent

\* _record_request resumes: await pipe.execute() returns or raises, or the
\* in-memory append runs.
Recorded(t, fails) ==
    /\ tasks[t] = "record"
    /\ \E rec \in {RecordRequest(requests, TheClient, fails)} :
          Admit(t, rec.requests, rec.minute, rec.hour)
    /\ UNCHANGED <<rate_limit_per_minute, rate_limit_per_hour, use_redis, now, last>>
    /\ redis_failed' = (redis_failed \/ fails)
    /\ UNCHANGED besideConcurrent

\* response = await call_next(request) returns.
CallNext(t) ==
    /\ tasks[t] = "call_next"
    /\ tasks' = [tasks EXCEPT ![t] = "done"]
    /\ UNCHANGED rlvars
    /\ UNCHANGED redis_failed
    /\ UNCHANGED besideConcurrent

\* Time passes while the tasks rest.
Elapse ==
    /\ \E i \in Instants : i > now /\ now' = i
    /\ redis_minute' = RedisExpire(redis_minute, now')
    /\ redis_hour' = RedisExpire(redis_hour, now')
    /\ UNCHANGED <<rate_limit_per_minute, rate_limit_per_hour, use_redis,
                   requests, admitted, last>>
    /\ UNCHANGED <<tasks, redis_failed>>
    /\ UNCHANGED besideConcurrent

ConcurrentInit ==
    /\ rate_limit_per_minute \in {1, 2}
    /\ rate_limit_per_hour = DefaultPerHour
    /\ use_redis \in BOOLEAN
    /\ now = 0
    /\ requests = [c \in Clients |-> <<>>]
    /\ redis_minute = [c \in Clients |-> NoKey]
    /\ redis_hour = [c \in Clients |-> NoKey]
    /\ admitted = [c \in Clients |-> <<>>]
    /\ last = NoRequest
    /\ tasks = [t \in TaskIds |-> "start"]
    /\ redis_failed = FALSE

ConcurrentNext ==
    \/ \E t \in TaskIds : DispatchStart(t)
    \/ \E t \in TaskIds, fails \in BOOLEAN : GotMinute(t, fails)
    \/ \E t \in TaskIds, fails \in BOOLEAN : GotHour(t, fails)
    \/ \E t \in TaskIds, fails \in (IF use_redis THEN BOOLEAN ELSE {FALSE}) :
          Recorded(t, fails)
    \/ \E t \in TaskIds : CallNext(t)
    \/ Elapse

(***************************************************************************)
(* recognize_ingredients under the event loop: several requests for one    *)
(* image, each a task that runs from one await to the next.                *)
(***************************************************************************)
\* The number of concurrent requests.
MaxRacers == 2

Racers == 1..MaxRacers

\* The request every task handles.
RaceRequest == [image_url |-> ImageUrl, image_base64 |-> ""]

RaceKey == RecognitionKey(RaceRequest)

\* A task: the await it rests at, the ingredients its own generation gave,
\* and its response.
Racer(pc, generated, status, ingredients, from_cache) ==
    [pc |-> pc, generated |-> generated, status |-> status,
     ingredients |-> ingredients, from_cache |-> from_cache]

\* cached_result = await self.cache.get(cache_key), and the return of a hit.
CacheLookup(t) ==
    /\ race.tasks[t].pc = "start"
    /\ \E hit \in {CacheGet(store, RaceKey, FALSE)} :
          race' = [race EXCEPT !.tasks[t] =
                      IF enabled /\ Truthy(hit.result)
                      THEN Racer("done", "", 200, IngredientsOf(hit.result), TRUE)
                      ELSE Racer("image", "", 0, "", FALSE)]
    /\ UNCHANGED <<cachevars, genvars>>
    /\ UNCHANGED besideRace

\* image_data = await self.image_service.download_image(...), validated and
\* processed.
AcquireImage(t, img) ==
    /\ race.tasks[t].pc = "image"
    /\ race' = [race EXCEPT !.tasks[t] =
                   IF GetImage(RaceRequest, img).raises # ""
                   THEN Racer("done", "", RecognitionStatus("ValueError", {}), "", FALSE)
                   ELSE Racer("generate", "", 0, "", FALSE)]
    /\ UNCHANGED <<cachevars, genvars>>
    /\ UNCHANGED besideRace

\* response_text = await self.ollama_service.generate_with_image(...), and
\* the parse of the text.
GenerateForImage(t, fault, answer) ==
    /\ race.tasks[t].pc = "generate"
    /\ \E generated \in {GenerateWithImage(PlanOf(fault))} :
          race' = [race EXCEPT
              !.generations = @ + 1,
              !.tasks[t] =
                  IF generated \notin {"text", "None"}
                  THEN Racer("done", "",
                             RecognitionStatus(generated, MessageKeywords(generated)),
                             "", FALSE)
                  ELSE IF ParseIngredients(generated, fault, answer).raises # ""
                  THEN Racer("done", "",
                             RecognitionStatus("TypeError", MessageKeywords("TypeError")),
                             "", FALSE)
                  ELSE Racer(IF enabled THEN "write" ELSE "done",
                             ParseIngredients(generated, fault, answer).ingredients,
                             IF enabled THEN 0 ELSE 200,
                             IF enabled THEN ""
                             ELSE ParseIngredients(generated, fault, answer).ingredients,
                             FALSE)]
    /\ UNCHANGED <<cachevars, genvars>>
    /\ UNCHANGED besideRace

\* await self.cache.set(cache_key, cache_data, ttl=self.cache_ttl), and
\* return result.
CacheWrite(t) ==
    /\ race.tasks[t].pc = "write"
    /\ \E out \in {CacheSet(store, RaceKey, CacheData(race.tasks[t].generated),
                            RecognitionTTL, FALSE)} :
          /\ store' = out.store
          /\ race' = [race EXCEPT
                 !.writers = Append(@, t),
                 !.tasks[t] = Racer("done", race.tasks[t].generated, 200,
                                    race.tasks[t].generated, FALSE)]
    /\ UNCHANGED <<enabled, clock, written, op, genvars>>
    /\ UNCHANGED besideRace

RaceInit ==
    /\ enabled \in BOOLEAN
    /\ clock = 0
    /\ store = [k \in AllKeys |-> NoEntry]
    /\ written = [k \in CacheKeys |-> NotWritten]
    /\ op = NoOp
    /\ max_retries = DefaultMaxRetries
    /\ available = TRUE
    /\ call = Idle
    /\ race = [tasks |-> [t \in Racers |-> Racer("start", "", 0, "", FALSE)],
               writers |-> <<>>, generations |-> 0]

RaceNext ==
    \/ \E t \in Racers : CacheLookup(t)
    \/ \E t \in Racers, img \in {"image", "http_404"} : AcquireImage(t, img)
    \/ \E t \in Racers, fault \in {"ok", "ok_prose", "deadline"}, answer \in Answers :
          GenerateForImage(t, fault, answer)
    \/ \E t \in Racers : CacheWrite(t)

(***************************************************************************)
(* RecipeService._parse_recipe_details_response: the three times of the    *)
(* RecipeDetailsResponse.                                                  *)
(***************************************************************************)
\* The minutes the model output and the request may hold in a field, or not.
ModelPrepTimes == {NoInt, SomeInt(5), SomeInt(15)}
ModelCookingTimes == {NoInt, SomeInt(20), SomeInt(30)}
ModelTotalTimes == {NoInt, SomeInt(50)}
RequestCookingTimes == {NoInt, SomeInt(0), SomeInt(25), SomeInt(30), SomeInt(45)}

\* recipe_data.get(key, default)
GetOr(field, default) == IF field.some THEN field.n ELSE default

\* request.cooking_time or 30
OrDefault(field, default) ==
    IF field.some /\ field.n # 0 THEN field.n ELSE default

\* The cooking_time, prep_time and total_time arguments of
\* RecipeDetailsResponse(...).
DetailTimes(data, request) ==
    [cooking_time |-> GetOr(data.cooking_time, OrDefault(request.cooking_time, 30)),
     prep_time |-> GetOr(data.prep_time, 10),
     total_time |-> GetOr(data.total_time,
                          GetOr(data.prep_time, 10) + GetOr(data.cooking_time, 30))]

NoTimes == [cooking_time |-> 0, prep_time |-> 0, total_time |-> 0]

\* The model output is parsed and the response is built.
ParseRecipeDetails ==
    /\ recipe_details.pc = "text"
    /\ recipe_details' =
          [recipe_details EXCEPT
              !.pc = "built",
              !.response = DetailTimes(recipe_details.data, recipe_details.request)]
    /\ UNCHANGED besideDetails

DetailsInit ==
    \E p \in ModelPrepTimes, c \in ModelCookingTimes, t \in ModelTotalTimes,
       r \in RequestCookingTimes :
        recipe_details = [pc |-> "text",
                   data |-> [prep_time |-> p, cooking_time |-> c, total_time |-> t],
                   request |-> [cooking_time |-> r],
                   response |-> NoTimes]

DetailsNext ==
    \/ ParseRecipeDetails

(***************************************************************************)
(* Specifications.  Each component is checked with the others at rest in   *)
(* their default configuration.                                            *)
(***************************************************************************)

RateLimitAtRest ==
    /\ rate_limit_per_minute = DefaultPerMinute
    /\ rate_limit_per_hour = DefaultPerHour
    /\ use_redis = FALSE
    /\ now = 0
    /\ requests = [c \in Clients |-> <<>>]
    /\ redis_minute = [c \in Clients |-> NoKey]
    /\ redis_hour = [c \in Clients |-> NoKey]
    /\ admitted = [c \in Clients |-> <<>>]
    /\ last = NoRequest

GenAtRest ==
    /\ max_retries = DefaultMaxRetries
    /\ available = TRUE
    /\ call = Idle

\* redis_enabled: bool = False
CacheAtRest ==
    /\ enabled = FALSE
    /\ clock = 0
    /\ store = [k \in CacheKeys |-> NoEntry]
    /\ written = [k \in CacheKeys |-> NotWritten]
    /\ op = NoOp

KeyAtRest ==
    keygen = [a |-> [prefix |-> "recipes", args |-> <<>>, kwargs |-> <<>>],
              b |-> [prefix |-> "recipes", args |-> <<>>, kwargs |-> <<>>],
              key_a |-> NoKeyYet, key_b |-> NoKeyYet]

RecipesAtRest == recipe = NoRecipe

ErrorsAtRest == reply = NoReply

SuggestAtRest ==
    suggestion =
        [NoSuggestion([text |-> Generation("prose", <<>>), filters |-> NoFilters,
                       max_results |-> DefaultMaxResults])
            EXCEPT !.pc = "raised", !.raises = "ValueError"]

TasksAtRest ==
    /\ tasks = [t \in TaskIds |-> "done"]
    /\ redis_failed = FALSE

RaceAtRest ==
    race = [tasks |-> [t \in Racers |-> Racer("done", "", 0, "", FALSE)],
            writers |-> <<>>, generations |-> 0]

DetailsAtRest ==
    recipe_details = [pc |-> "built",
               data |-> [prep_time |-> NoInt, cooking_time |-> NoInt, total_time |-> NoInt],
               request |-> [cooking_time |-> NoInt],
               response |-> DetailTimes([prep_time |-> NoInt, cooking_time |-> NoInt,
                                         total_time |-> NoInt],
                                        [cooking_time |-> NoInt])]

ExtractionAtRest ==
    extraction = [pc |-> "parsed", text |-> <<>>, raises |-> "",
                  ingredients |-> <<>>, loads |-> <<>>, fell_back |-> FALSE]

\* api_key: str = ""
AuthAtRest ==
    /\ api_key = ""
    /\ authed = NoAuth

RecognitionAtRest ==
    /\ recognition = NoRecognition
    /\ served = [k \in RecognitionKeys |-> NotServed]

InitRateLimit ==
    RateLimitInit /\ GenAtRest /\ CacheAtRest /\ KeyAtRest /\ RecognitionAtRest
    /\ RecipesAtRest
    /\ ErrorsAtRest
    /\ AuthAtRest
    /\ ExtractionAtRest
    /\ SuggestAtRest
    /\ TasksAtRest
    /\ RaceAtRest
    /\ DetailsAtRest

SpecRateLimit == InitRateLimit /\ [][RateLimitNext]_vars

\* The limiter in a deployment with an API key configured.
InitIdentity ==
    IdentityInit /\ GenAtRest /\ CacheAtRest /\ KeyAtRest /\ RecognitionAtRest
    /\ RecipesAtRest
    /\ ErrorsAtRest
    /\ api_key = "sk-live-1"
    /\ authed = NoAuth
    /\ ExtractionAtRest
    /\ SuggestAtRest
    /\ TasksAtRest
    /\ RaceAtRest
    /\ DetailsAtRest

SpecIdentity == InitIdentity /\ [][IdentityNext]_vars

InitGenerate ==
    GenInit /\ RateLimitAtRest /\ CacheAtRest /\ KeyAtRest /\ RecognitionAtRest
    /\ RecipesAtRest
    /\ ErrorsAtRest
    /\ AuthAtRest
    /\ ExtractionAtRest
    /\ SuggestAtRest
    /\ TasksAtRest
    /\ RaceAtRest
    /\ DetailsAtRest

SpecGenerate == InitGenerate /\ [][GenNext]_vars

InitCache ==
    CacheInit /\ RateLimitAtRest /\ GenAtRest /\ KeyAtRest /\ RecognitionAtRest
    /\ RecipesAtRest
    /\ ErrorsAtRest
    /\ AuthAtRest
    /\ ExtractionAtRest
    /\ SuggestAtRest
    /\ TasksAtRest
    /\ RaceAtRest
    /\ DetailsAtRest

SpecCache == InitCache /\ [][CacheNext]_vars

InitKey ==
    KeyInit /\ RateLimitAtRest /\ GenAtRest /\ CacheAtRest /\ RecognitionAtRest
    /\ RecipesAtRest
    /\ ErrorsAtRest
    /\ AuthAtRest
    /\ ExtractionAtRest
    /\ SuggestAtRest
    /\ TasksAtRest
    /\ RaceAtRest
    /\ DetailsAtRest

InitRecognition ==
    RecognitionInit /\ RateLimitAtRest /\ KeyAtRest /\ RecipesAtRest
    /\ ErrorsAtRest
    /\ AuthAtRest
    /\ ExtractionAtRest
    /\ SuggestAtRest
    /\ TasksAtRest
    /\ RaceAtRest
    /\ DetailsAtRest

SpecRecognition == InitRecognition /\ [][RecognitionNext]_vars

InitRecipes ==
    /\ RecipesInit
    /\ RateLimitAtRest /\ CacheAtRest /\ KeyAtRest /\ RecognitionAtRest
    /\ ErrorsAtRest
    /\ AuthAtRest
    /\ ExtractionAtRest
    /\ SuggestAtRest
    /\ TasksAtRest
    /\ RaceAtRest
    /\ DetailsAtRest

SpecRecipes == InitRecipes /\ [][RecipesNext]_vars

SpecKey == InitKey /\ [][KeyNext]_vars

InitErrors ==
    /\ ErrorsInit
    /\ RateLimitAtRest /\ GenAtRest /\ CacheAtRest /\ KeyAtRest
    /\ RecognitionAtRest /\ RecipesAtRest
    /\ AuthAtRest
    /\ ExtractionAtRest
    /\ SuggestAtRest
    /\ TasksAtRest
    /\ RaceAtRest
    /\ DetailsAtRest

SpecErrors == InitErrors /\ [][ErrorsNext]_vars

InitAuth ==
    /\ AuthInit
    /\ RateLimitAtRest /\ GenAtRest /\ CacheAtRest /\ KeyAtRest
    /\ RecognitionAtRest /\ RecipesAtRest /\ ErrorsAtRest
    /\ ExtractionAtRest
    /\ SuggestAtRest
    /\ TasksAtRest
    /\ RaceAtRest
    /\ DetailsAtRest

SpecAuth == InitAuth /\ [][AuthNext]_vars

InitExtraction ==
    /\ ExtractionInit
    /\ RateLimitAtRest /\ GenAtRest /\ CacheAtRest /\ KeyAtRest
    /\ RecognitionAtRest /\ RecipesAtRest /\ ErrorsAtRest /\ AuthAtRest
    /\ SuggestAtRest
    /\ TasksAtRest
    /\ RaceAtRest
    /\ DetailsAtRest

SpecExtraction == InitExtraction /\ [][ExtractionNext]_vars

InitSuggest ==
    /\ SuggestInit
    /\ RateLimitAtRest /\ GenAtRest /\ CacheAtRest /\ KeyAtRest
    /\ RecognitionAtRest /\ RecipesAtRest /\ ErrorsAtRest /\ AuthAtRest
    /\ ExtractionAtRest
    /\ TasksAtRest
    /\ RaceAtRest
    /\ DetailsAtRest

SpecSuggest == InitSuggest /\ [][SuggestNext]_vars

InitConcurrent ==
    /\ ConcurrentInit
    /\ GenAtRest /\ CacheAtRest /\ KeyAtRest
    /\ RecognitionAtRest /\ RecipesAtRest /\ ErrorsAtRest /\ AuthAtRest
    /\ ExtractionAtRest /\ SuggestAtRest
    /\ RaceAtRest
    /\ DetailsAtRest

SpecConcurrent == InitConcurrent /\ [][ConcurrentNext]_vars

InitRace ==
    /\ RaceInit
    /\ RateLimitAtRest /\ KeyAtRest
    /\ RecognitionAtRest /\ RecipesAtRest /\ ErrorsAtRest /\ AuthAtRest
    /\ ExtractionAtRest /\ SuggestAtRest /\ TasksAtRest
    /\ DetailsAtRest

SpecRace == InitRace /\ [][RaceNext]_vars

InitDetails ==
    /\ DetailsInit
    /\ RateLimitAtRest /\ GenAtRest /\ CacheAtRest /\ KeyAtRest
    /\ RecognitionAtRest /\ RecipesAtRest /\ ErrorsAtRest /\ AuthAtRest
    /\ ExtractionAtRest /\ SuggestAtRest /\ TasksAtRest /\ RaceAtRest

SpecDetails == InitDetails /\ [][DetailsNext]_vars

Init ==
    RateLimitInit /\ GenInit /\ CacheInit /\ KeyInit /\ RecognitionAtRest
    /\ RecipesAtRest
    /\ ErrorsAtRest
    /\ AuthAtRest
    /\ ExtractionAtRest
    /\ SuggestAtRest
    /\ TasksAtRest
    /\ RaceAtRest
    /\ DetailsAtRest

Next ==
    RateLimitNext \/ GenNext \/ CacheNext \/ KeyNext \/ RecognitionNext
    \/ RecipesNext \/ ErrorsNext \/ AuthNext
    \/ ExtractionNext \/ SuggestNext \/ ConcurrentNext \/ RaceNext
    \/ DetailsNext
    \/ IdentityNext

Spec == Init /\ [][Next]_vars

(***************************************************************************)
(* Properties of the rate limiter, checked under SpecRateLimit.            *)
(***************************************************************************)
\* The number of entries of a log younger than w seconds at time t.
CountWithin(log, t, w) == Cardinality({i \in DOMAIN log : t - log[i] < w})

\* A step that handles a request of a rate limited path (the clock stands
\* still while a request is handled; last' is the request and its response).
LimitedDispatchStep == now' = now /\ last'.path \in Paths \ ExemptPaths

\* A step that handles a request of a path of the skip list.
ExemptDispatchStep ==
    /\ now' = now
    /\ last'.path \in {"/", "/api/ai/health", "/docs", "/redoc", "/openapi.json"}

\* The requests of c so far all lie in the 60 seconds that end now, they are
\* fewer than the hourly threshold, and Redis, when configured, has served
\* every operation for c in that interval and serves this check.
OneMinuteInterval(c) ==
    /\ \A i \in DOMAIN admitted[c] : now - admitted[c][i] < MinuteWindow
    /\ Len(admitted[c]) < rate_limit_per_hour
    /\ use_redis => requests[c] = <<>> /\ ~last'.check_fell_back

C2_RedisOutageFallsBack ==
    [][LimitedDispatchStep /\ use_redis =>
         LET c == last'.client IN
         /\ last'.status \in {200, 429}
         /\ last'.check_fell_back =>
              (last'.status = 429 <=>
                 \/ CountWithin(requests[c], now, MinuteWindow) >= rate_limit_per_minute
                 \/ CountWithin(requests[c], now, HourWindow) >= rate_limit_per_hour)
         /\ last'.record_fell_back =>
              /\ last'.status = 200
              /\ redis_minute' = redis_minute /\ redis_hour' = redis_hour
              /\ CountWithin(requests'[c], now, MinuteWindow)
                   = CountWithin(requests[c], now, MinuteWindow) + 1]_vars

\* A Redis check raised and the in-memory log, filled by an earlier record
\* that raised, rejected the request.
C2_Witness ==
    /\ use_redis
    /\ last.check_fell_back /\ last.status = 429
    /\ requests[last.client] # <<>>

\* The number of entries of a log at most w seconds old at time t.
CountUpTo(log, t, w) == Cardinality({i \in DOMAIN log : t - log[i] <= w})

\* C3: a request is rejected only if at least rate_limit_per_minute requests
\* of its identity were admitted in the preceding 60 seconds or at least
\* rate_limit_per_hour in the preceding 3600 seconds (a request exactly 60
\* or 3600 seconds old is counted here as inside its window).
C3_RejectedOnlyWithinWindow ==
    [][LimitedDispatchStep /\ last'.status = 429 =>
         LET c == last'.client IN
         \/ CountUpTo(admitted[c], now, MinuteWindow) >= rate_limit_per_minute
         \/ CountUpTo(admitted[c], now, HourWindow) >= rate_limit_per_hour]_vars

\* C4: a rejected request is not forwarded and not recorded: the Redis
\* counters, and the numbers of entries of the in-memory log inside the
\* minute and the hour windows, are what they were before the request.
C4_RejectionNotRecorded ==
    [][LimitedDispatchStep /\ last'.status = 429 =>
         LET c == last'.client IN
         /\ ~last'.called_next
         /\ redis_minute' = redis_minute /\ redis_hour' = redis_hour
         /\ admitted' = admitted
         /\ \A d \in Clients :
              /\ CountWithin(requests'[d], now, MinuteWindow)
                   = CountWithin(requests[d], now, MinuteWindow)
              /\ CountWithin(requests'[d], now, HourWindow)
                   = CountWithin(requests[d], now, HourWindow)]_vars

\* A request has just been rejected while its identity had a request counted.
C4_Witness ==
    /\ last.status = 429
    /\ \/ requests[last.client] # <<>>
       \/ RedisExists(redis_minute[last.client], now)

\* C5: a request of a path of the skip list is forwarded whatever the counts
\* of its identity are, and the in-memory log and the Redis counters of
\* every identity stay as they were.
C5_ExemptPathsUntouched ==
    [][ExemptDispatchStep =>
         /\ last'.status = 200 /\ last'.called_next
         /\ requests' = requests
         /\ redis_minute' = redis_minute /\ redis_hour' = redis_hour
         /\ admitted' = admitted]_vars

\* A request of /docs was forwarded for an identity that is at its
\* per-minute threshold.
C5_Witness ==
    /\ last.path = "/docs" /\ last.status = 200
    /\ CountWithin(admitted[last.client], now, MinuteWindow) >= rate_limit_per_minute

(***************************************************************************)
(* Properties of the generative clients, checked under SpecGenerate.       *)
(***************************************************************************)
LoopFns == {"ollama.generate_text", "ollama.generate_with_image",
            "gemini.generate_text", "gemini.generate_with_image"}

Raised == {"RuntimeError", "TimeoutError", "ConnectionError", "ValueError",
           "TypeError", "UnboundLocalError", "httpx.HTTPStatusError",
           "httpx.ConnectError", "Exception"}

\* The call has ended and was made on an available client.
Ended == call.pc = "done" /\ available

\* C6: when the backend refuses the connection during the first N-1 attempts
\* and answers during the N-th, 1 <= N <= max_retries, generate_text and
\* generate_with_image return the text of attempt N after N attempts.
C6_RetryUntilSuccess ==
    Ended /\ call.fn \in LoopFns =>
        \A n \in 1..max_retries :
            (/\ \A k \in 1..(n - 1) : call.plan[k] = "refused"
             /\ call.plan[n] \in {"ok", "ok_prose"})
            => /\ call.result = "text"
               /\ call.attempts = n
               /\ call.text_from = n

\* C7: when every attempt runs into the timeout, a generation call raises
\* TimeoutError after max_retries attempts, having slept 2^k seconds after
\* the failed attempt k, k = 0 .. max_retries-2, and not after the last one.
C7_TimeoutBackoff ==
    (/\ Ended /\ max_retries >= 1
     /\ \A k \in 1..max_retries : call.plan[k] = "deadline")
    => /\ call.result = "TimeoutError"
       /\ call.attempts = max_retries
       /\ call.sleeps = [k \in 1..(max_retries - 1) |-> 2 ^ (k - 1)]

\* The failures that are not of the network or availability class: an
\* authentication failure and an empty or unexpected response body.
SemanticFaults == {"http_401", "bad_body"}

\* C8: a failure that is not of the network or availability class ends the
\* call: it is raised after that attempt, and no sleep and no further
\* attempt follow it.
C8_SemanticFailureNotRetried ==
    available =>
        \A k \in 1..call.attempts :
            call.plan[k] \in SemanticFaults
            => /\ call.pc = "done"
               /\ call.attempts = k
               /\ call.result \in Raised
               /\ Len(call.sleeps) = k - 1

\* C9: a call that has used up its attempts raises TimeoutError when the
\* last failure was a timeout, ConnectionError when it was connection-related
\* (a refused connection, a 503 of an unavailable backend), and an error that
\* is neither of the two when it was an authentication failure or a bad
\* response body.
C9_ExhaustedErrorClass ==
    (/\ Ended /\ call.fn \in LoopFns
     /\ max_retries >= 1 /\ call.attempts = max_retries
     /\ call.plan[max_retries] \notin {"ok", "ok_prose"})
    => LET lastFault == call.plan[max_retries] IN
       /\ call.result \in Raised
       /\ lastFault = "deadline" => call.result = "TimeoutError"
       /\ lastFault \in {"refused", "http_503"}
            => call.result = "ConnectionError"
       /\ lastFault \in SemanticFaults
            => call.result \notin {"TimeoutError", "ConnectionError"}

\* C10: on a client constructed unavailable every call raises RuntimeError
\* at once: no request is sent to the backend and nothing is slept.
C10_UnavailableFailsFast ==
    ~available /\ call.pc # "idle"
    => /\ call.pc = "done"
       /\ call.result = "RuntimeError"
       /\ call.attempts = 0 /\ call.gets = 0 /\ call.posts = 0
       /\ call.sleeps = <<>>

\* generate_structured was called on an unavailable client whose backend
\* would have answered, and raised RuntimeError.
C10_Witness ==
    /\ ~available /\ max_retries >= 1
    /\ call.pc = "done" /\ call.fn = "ollama.generate_structured"
    /\ call.plan[1] = "ok"
    /\ call.result = "RuntimeError"

\* C11: for every retry count, a call of generate_text or generate_with_image
\* makes at most max_retries attempts and ends by returning the generated
\* text or by raising an error, never by returning no value.
C11_EndsWithTextOrError ==
    call.fn \in LoopFns /\ available =>
        /\ call.attempts <= max_retries
        /\ call.pc = "done" => call.result \in {"text"} \cup Raised

(***************************************************************************)
(* Properties of the cache, checked under SpecCache.                       *)
(***************************************************************************)
\* A step in which a healthy backend serves get(k) for a key k whose last
\* executed set stored a value of the JSON data model with a ttl > 0.
HealthyGetStep ==
    /\ op'.name = "get" /\ clock' = clock
    /\ enabled /\ ~op'.fails
    /\ written[op'.key].present
    /\ written[op'.key].value \in JsonValues
    /\ written[op'.key].ttl > 0

C13_DegradesQuietly ==
    op.name # "" /\ (~enabled \/ op.fails) =>
        /\ ~op.raised
        /\ op.result = IF op.name = "get" THEN PyNone ELSE PyBool(FALSE)
        /\ ~enabled => op.calls = 0

\* The backend raised while the key held a live value, and get returned None.
C13_Witness ==
    /\ enabled /\ op.name = "get" /\ op.fails
    /\ Live(store[op.key], clock)
    /\ op.result = PyNone /\ ~op.raised

(***************************************************************************)
(* Properties of generate_key, checked under SpecKey.                      *)
(***************************************************************************)
\* The number of times x occurs in a sequence.
Occurrences(x, seq) == Cardinality({i \in DOMAIN seq : seq[i] = x})

\* Two arguments are the same scalar or object, or lists that are
\* permutations of each other.
SameArgument(v, w) ==
    \/ v = w
    \/ /\ v.t = "list" /\ w.t = "list"
       /\ Len(v.items) = Len(w.items)
       /\ \A i \in DOMAIN v.items :
            Occurrences(v.items[i], v.items) = Occurrences(v.items[i], w.items)

\* Two calls with the same prefix, positional arguments that are the same in
\* the same order, and the same keyword arguments in any order.
SameArguments(a, b) ==
    /\ a.prefix = b.prefix
    /\ Len(a.args) = Len(b.args)
    /\ \A i \in DOMAIN a.args : SameArgument(a.args[i], b.args[i])
    /\ Len(a.kwargs) = Len(b.kwargs)
    /\ \A i \in DOMAIN a.kwargs : \E j \in DOMAIN b.kwargs :
         /\ a.kwargs[i].k = b.kwargs[j].k
         /\ SameArgument(a.kwargs[i].v, b.kwargs[j].v)

BothKeysMade == keygen.key_a # NoKeyYet /\ keygen.key_b # NoKeyYet

RequestStep == clock' = clock

UrlKey == RecognitionKey([image_url |-> ImageUrl, image_base64 |-> ""])

\* C15: with the cache enabled and healthy, once a request for an image URL
\* has completed and its result has been cached, a request for the same URL
\* made before cache_ttl elapses is answered 200 with the ingredients of that
\* earlier response, from the cache, with no image download and no call of
\* the generative client.
C15_SecondRequestHitsCache ==
    [][ ( /\ RequestStep
          /\ enabled
          /\ served[UrlKey].present
          /\ recognition'.request.image_url = ImageUrl
          /\ ~recognition'.cache_down )
        => /\ recognition'.status = 200
           /\ recognition'.from_cache
           /\ recognition'.ingredients = served[UrlKey].ingredients
           /\ recognition'.downloads = 0
           /\ recognition'.generations = 0 ]_vars

\* The second request arrives an hour after the first and is answered from
\* the cache.
C15_Witness ==
    /\ enabled
    /\ clock = 3600
    /\ served[UrlKey].present
    /\ served[UrlKey].at = 0
    /\ recognition.request.image_url = ImageUrl
    /\ recognition.from_cache
    /\ recognition.ingredients = served[UrlKey].ingredients
    /\ recognition.generations = 0

\* What the caller of recognize_ingredients sees: the status, the ingredient
\* list of a 200, the failure of an error.
OutcomeOf(r) ==
    [status |-> r.status, ingredients |-> r.ingredients, failure |-> r.failure]

\* The same request with the same image and the same generative backend,
\* handled by a service whose cache is disabled.
WithCacheDisabled(r) ==
    Recognize(r.request, r.img, r.fault, r.answer, FALSE, FALSE, FALSE,
              [k \in AllKeys |-> NoEntry])

\* C16: a request handled while the cache backend raises at every get and
\* set has the outcome (status and ingredient list, or failure) that the
\* same request has with the cache disabled, whatever the image and the
\* generative backend do and whatever the cache held before the backend
\* went down.
C16_FailingCacheAsDisabled ==
    [][ (RequestStep /\ enabled /\ recognition'.cache_down)
        => /\ OutcomeOf(recognition') = OutcomeOf(WithCacheDisabled(recognition'))
           /\ ~recognition'.from_cache
           /\ store' = store ]_vars

\* The backend goes down after a response for the URL was cached; the
\* request is recognised afresh and answered 200.
C16_Witness ==
    /\ enabled
    /\ recognition.cache_down
    /\ served[UrlKey].present
    /\ recognition.request.image_url = ImageUrl
    /\ recognition.status = 200
    /\ recognition.generations = 1
    /\ recognition.ingredients # served[UrlKey].ingredients

\* A request has been handled.
Handled == recognition.status # 0

\* The image fields the request supplies.
Supplied(request) ==
    {f \in {"image_url", "image_base64"} : request[f] # ""}

\* C17: a request that does not supply exactly one of image_url and
\* image_base64 (neither, or both) is answered 400 and the generative client
\* is not called for it.
C17_ExactlyOneImage ==
    (/\ Handled
     /\ available
     /\ max_retries = DefaultMaxRetries
     /\ Cardinality(Supplied(recognition.request)) # 1)
        => /\ recognition.status = 400
           /\ recognition.generations = 0

\* The request reached the generative client: its image was obtained and
\* valid, and the answer did not come from the cache.
Generated(r) ==
    r.status # 0 /\ Supplied(r.request) # {} /\ r.img = "image" /\ ~r.from_cache

\* The generative client is configured and makes at least one attempt.
ClientUsable == available /\ max_retries >= 1

C19_DownloadFailureUnavailable ==
    (/\ Handled
     /\ ~recognition.from_cache
     /\ recognition.request.image_url # ""
     /\ recognition.img \in {"timeout", "network"})
        => recognition.status = 503

(***************************************************************************)
(* Properties of the recipe routes.                                        *)
(***************************************************************************)
\* C20: a recipe operation whose generative call fails is answered with the
\* class of the failure: 504 when the client raised TimeoutError after its
\* retries, 503 when it raised ConnectionError after its retries, 500 for
\* any other failure.
C20_RecipeFailureClasses ==
    recipe.status # 0 =>
        /\ recipe.raises = "TimeoutError" => recipe.status = 504
        /\ recipe.raises = "ConnectionError" => recipe.status = 503
        /\ recipe.raises \notin {"", "TimeoutError", "ConnectionError"}
               => recipe.status = 500

(***************************************************************************)
(* Properties of the error responses.                                      *)
(***************************************************************************)
\* C21: two exceptions that no clause anticipates, of the same class at the
\* same place and differing only in their message, get the same response:
\* the body of a 500 holds no text of the exception.
C21_NoInternalDetail ==
    (reply.origin # "" /\ reply.first_response.status = 500)
        => reply.first_response = reply.second_response

(***************************************************************************)
(* Properties of verify_api_key.                                           *)
(***************************************************************************)
\* C22: with an API key configured, a request to one of the four POST routes
\* whose X-API-Key header is absent or is not the configured key is answered
\* 401 and the service of the route is not called; a request carrying the
\* configured key passes the check under that identity and its service is
\* called.
C22_ApiKeyRequired ==
    (authed.path \in PostRoutes /\ api_key # "") =>
        IF authed.header.present /\ authed.header.value = api_key
        THEN authed.invoked /\ authed.identity = api_key /\ authed.status # 401
        ELSE authed.status = 401 /\ ~authed.invoked

\* A request that carries another well-formed key is turned away.
C22_Witness ==
    /\ api_key = "sk-live-1"
    /\ authed.path = "/api/ai/suggest-recipes"
    /\ authed.header = Header(TRUE, "sk-live-2")
    /\ authed.status = 401
    /\ ~authed.invoked

(***************************************************************************)
(* Properties of the ingredient list extraction.                           *)
(***************************************************************************)
\* An element that is an ingredient object: a name, a confidence within
\* 0..1 when it gives one, a quantity and a unit that are strings when it
\* gives them.
IngredientObject(item) ==
    /\ item.k = "object"
    /\ item.name.t = "str"
    /\ item.confidence.t \in {"num", "absent"}
    /\ item.confidence.t = "num" => item.confidence.n \in 0..100
    /\ item.quantity.t \in {"str", "null", "absent"}
    /\ item.unit.t \in {"str", "null", "absent"}

\* The Ingredient that carries what the element gives.
IngredientOf(item) ==
    Ingredient(item.name.s,
               IF item.confidence.t = "num" THEN item.confidence.n ELSE 50,
               OptionalStr(item.quantity), OptionalStr(item.unit))

\* The text is prose and code fences around one JSON array of ingredient
\* objects, which is its line i.
ArrayInProse(text, i) ==
    /\ i \in DOMAIN text
    /\ text[i].kind = "array"
    /\ \A k \in DOMAIN text[i].items : IngredientObject(text[i].items[k])
    /\ \A j \in DOMAIN text : j # i => text[j].kind = "prose"

\* C23: for a text of prose and code fences before and after one JSON array
\* of ingredient objects, the parser returns one Ingredient per element, in
\* the order of the array, each with the name, confidence, quantity and
\* unit of its element.
C23_ArrayInProseExtracted ==
    \A i \in DOMAIN extraction.text :
        (extraction.pc = "parsed" /\ ArrayInProse(extraction.text, i))
            => /\ extraction.raises = ""
               /\ extraction.ingredients =
                      [k \in DOMAIN extraction.text[i].items |->
                          IngredientOf(extraction.text[i].items[k])]

\* One record per line that is not empty and does not begin with a bracket
\* or a brace: its first comma-delimited token, confidence 0.7.
RECURSIVE LineRecords(_)
LineRecords(text) ==
    IF text = <<>> THEN <<>>
    ELSE LET line == Strip(Head(text).tokens)
             rest == LineRecords(Tail(text))
         IN  IF line # <<>> /\ Head(line) \notin {"{", "["}
             THEN <<Ingredient(Concat(Strip(FirstField(line))), 70, None, None)>>
                  \o rest
             ELSE rest

\* C24: when no JSON can be parsed from the text, the parser returns one
\* record per non-empty line that does not begin with '[' or '{', in line
\* order, named by the first comma-delimited token of the line, with
\* confidence 0.7 and no quantity or unit, and only the first 10 of them.
C24_FallbackRecords ==
    (/\ extraction.pc = "parsed"
     /\ TryParse(extraction.text).raises = "JSONDecodeError")
        => /\ extraction.raises = ""
           /\ LET records == LineRecords(extraction.text)
              IN  extraction.ingredients =
                      SubSeq(records, 1, IF Len(records) < FallbackCap
                                         THEN Len(records) ELSE FallbackCap)

\* C25: whatever text the generative client returns, the parser returns a
\* list of Ingredient records and raises nothing.
C25_ExtractionNeverRaises ==
    extraction.pc = "parsed" => extraction.raises = ""

(***************************************************************************)
(* Properties of the recipe list: extraction, filters, ranking.            *)
(***************************************************************************)
\* C26: recipe list extraction never propagates a parse error: a generated
\* text without a parseable JSON array gives a degraded result, not an
\* exception.
C26_RecipeListNeverRaises ==
    (suggestion.pc # "request" /\ suggestion.text.kind = "prose")
        => suggestion.pc = "returned"

\* (|required| - |missing|) / |required| * 100 in hundredths, 0 for an empty
\* required list.
Recomputed(item) ==
    IF Len(item.ingredients_required) = 0 THEN 0
    ELSE ((Len(item.ingredients_required) - Len(item.ingredients_missing)) * 10000)
            \div Len(item.ingredients_required)

\* C27: every element of the array of the model gives a Recipe whose
\* match_percentage is recomputed from its own two lists, whatever the
\* lengths of the lists and the percentage the model supplied.
C27_MatchPercentageRecomputed ==
    (suggestion.pc # "request" /\ suggestion.text.kind # "prose")
        => /\ suggestion.pc = "returned"
           /\ Len(suggestion.parsed) = Len(suggestion.text.items)
           /\ \A i \in DOMAIN suggestion.parsed :
                suggestion.parsed[i].match_percentage
                    = SomeInt(Recomputed(suggestion.text.items[i]))

\* The conditions a request supplies, each on its own.
Satisfies(r, f) ==
    /\ f.dietary_restrictions = <<>>
          \/ \E i \in DOMAIN f.dietary_restrictions :
                \E j \in DOMAIN r.dietary_info :
                    f.dietary_restrictions[i] = r.dietary_info[j]
    /\ ~f.cuisine.some \/ r.cuisine = f.cuisine
    /\ ~f.cooking_time.some \/ r.cooking_time.n <= f.cooking_time.n
    /\ ~f.difficulty.some \/ r.difficulty = f.difficulty.s
    /\ \A i \in DOMAIN f.exclude_ingredients :
          \A j \in DOMAIN r.ingredients_required :
              f.exclude_ingredients[i] # r.ingredients_required[j]

RECURSIVE Survivors(_, _)
Survivors(recipes, f) ==
    IF recipes = <<>> THEN <<>>
    ELSE (IF Satisfies(Head(recipes), f) THEN <<Head(recipes)>> ELSE <<>>)
            \o Survivors(Tail(recipes), f)

\* C28: _apply_filters returns the recipes that satisfy every supplied
\* condition, in their order, a cooking_time bound of 0 included.
C28_FiltersExact ==
    (suggestion.pc = "returned" /\ suggestion.filters.some)
        => suggestion.filtered
              = Survivors(suggestion.parsed, suggestion.filters.filters)

Percentage(r) == r.match_percentage.n

Returned == suggestion.pc = "returned"

\* The returned recipes are recipes of the filtered list, each taken once,
\* those of equal percentage in the order of the filtered list, and no
\* recipe left out ranks before a returned one.
RankedFrom(recipes, filtered) ==
    \E p \in [DOMAIN recipes -> DOMAIN filtered] :
        /\ \A i \in DOMAIN recipes : recipes[i] = filtered[p[i]]
        /\ \A i, j \in DOMAIN recipes :
              /\ i # j => p[i] # p[j]
              /\ (i < j /\ Percentage(recipes[i]) = Percentage(recipes[j]))
                    => p[i] < p[j]
        /\ \A k \in DOMAIN filtered \ {p[i] : i \in DOMAIN recipes} :
              \A i \in DOMAIN recipes :
                  \/ Percentage(filtered[k]) < Percentage(recipes[i])
                  \/ Percentage(filtered[k]) = Percentage(recipes[i]) /\ p[i] < k

\* C29: suggest_recipes returns the recipes by falling match_percentage,
\* equal ones in their order of generation, at most max_results of them,
\* and total_results counts them.
C29_RankedAndTruncated ==
    Returned =>
        /\ \A i, j \in DOMAIN suggestion.recipes :
              i < j => Percentage(suggestion.recipes[i])
                          >= Percentage(suggestion.recipes[j])
        /\ Len(suggestion.recipes)
              = (IF Len(suggestion.filtered) < suggestion.max_results
                 THEN Len(suggestion.filtered) ELSE suggestion.max_results)
        /\ (suggestion.recipes = <<>>
              \/ RankedFrom(suggestion.recipes, suggestion.filtered))
        /\ suggestion.total_results = Len(suggestion.recipes)

\* Two recipes of one percentage generated after a lower one are returned
\* and the lower one is cut off.
C29_Witness ==
    /\ Returned
    /\ Len(suggestion.filtered) > Len(suggestion.recipes)
    /\ \E i, j \in DOMAIN suggestion.recipes :
          /\ i < j
          /\ Percentage(suggestion.recipes[i]) = Percentage(suggestion.recipes[j])
          /\ suggestion.recipes[i] # suggestion.recipes[j]
    /\ Percentage(suggestion.filtered[1]) < Percentage(suggestion.recipes[1])

(***************************************************************************)
(* Properties of dispatch under the event loop.                            *)
(***************************************************************************)
\* The admissions of the identity in the 60 seconds that begin at from.
AdmittedWithin(from) ==
    {i \in DOMAIN admitted[TheClient] :
        /\ from <= admitted[TheClient][i]
        /\ admitted[TheClient][i] < from + 60}

\* A task rests between the start of its check and its append.
MidCheck(t) == tasks[t] \in {"get_minute", "get_hour", "record"}

\* C30: with the in-memory backend no task rests between its check and its
\* append, so the check and the append of a request run with no step of
\* another request in between, and no 60-second interval holds more than
\* rate_limit_per_minute admissions of the identity.
C30_CheckAndAppendAtomic ==
    ~use_redis =>
        /\ \A t \in TaskIds : ~MidCheck(t)
        /\ \A from \in Instants :
              Cardinality(AdmittedWithin(from)) <= rate_limit_per_minute

\* Two requests are in call_next at once, a third arrived in the same
\* minute and was rejected.
C30_Witness ==
    /\ ~use_redis
    /\ rate_limit_per_minute = 2
    /\ \E t, u, v \in TaskIds :
          /\ t # u
          /\ tasks[t] = "call_next" /\ tasks[u] = "call_next"
          /\ tasks[v] = "rejected"
    /\ Cardinality(AdmittedWithin(now)) = 2

(***************************************************************************)
(* Properties of the limiter over time.                                    *)
(***************************************************************************)
\* Every request of c that was admitted is at least window seconds old:
\* so is the rejection of c that followed them.
QuietFor(c, window) ==
    \A i \in DOMAIN admitted[c] : now - admitted[c][i] >= window

\* The backend that serves c counts as many requests as the hour threshold.
HourReached(c) ==
    IF use_redis
    THEN RedisExists(redis_hour[c], now) /\ redis_hour[c].count >= rate_limit_per_hour
    ELSE Len(PruneHour(requests[c], now)) >= rate_limit_per_hour

\* The request handled last was a rejection of c, and c has sent nothing
\* for the window of the threshold it had reached.
QuietSinceRejected(c) ==
    /\ last.client = c /\ last.status = 429
    /\ \/ QuietFor(c, 3600)
       \/ QuietFor(c, 60) /\ ~HourReached(c)

\* One backend has served c: the in-memory log, or Redis without a fallback.
OneBackend(c) == use_redis => requests[c] = <<>> /\ ~last.check_fell_back

\* What dispatch answers to a request of c that arrives now, the backend
\* serving its check.
NextAnswer(c, recordFails) ==
    DispatchResult(c, "/api/ai/suggest-recipes", "healthy", recordFails).response

GenerationSucceeded(r) ==
    /\ Generated(r) /\ ClientUsable
    /\ r.fault \in {"ok", "ok_prose"}
    /\ r.generations = 1

\* C32: on a miss the image is acquired and validated before the generative
\* client is called and the cache is written last: a request that fails
\* before the write leaves the cache as it was, a request whose image is not
\* obtained or not valid does not reach the generative client, and a cache
\* entry is written only under the fingerprint of a request whose
\* generation succeeded.
C32_CacheWrittenLast ==
    [][RequestStep =>
          /\ \A k \in AllKeys :
                store'[k] # store[k]
                    => /\ k = RecognitionKey(recognition'.request)
                       /\ recognition'.status = 200
                       /\ GenerationSucceeded(recognition')
          /\ recognition'.status # 200 => store' = store
          /\ recognition'.failure \in {"no image", "invalid image", "download"}
                => recognition'.generations = 0]_vars

\* A request was answered from a generation and its result is in the cache
\* under its fingerprint.
C32_Witness ==
    /\ recognition.status = 200
    /\ GenerationSucceeded(recognition)
    /\ Live(store[RecognitionKey(recognition.request)], clock)
    /\ served[RecognitionKey(recognition.request)].ingredients = recognition.ingredients

(***************************************************************************)
(* Properties of concurrent recognition requests.                          *)
(***************************************************************************)
\* The ingredient list the cache holds for the image.
CachedIngredients == IngredientsOf(JsonLoads(store[RaceKey].text))

\* C33: of the concurrent requests for one image, each that generates
\* returns the ingredients of its own generation, and once requests have
\* written the cache it holds the entry of the one that wrote last; the
\* cache does not keep them from generating both.
C33_LastWriterWins ==
    /\ \A t \in Racers :
          (race.tasks[t].pc = "done" /\ race.tasks[t].status = 200
              /\ ~race.tasks[t].from_cache)
             => race.tasks[t].ingredients = race.tasks[t].generated
    /\ race.writers # <<>>
          => /\ Live(store[RaceKey], clock)
             /\ CachedIngredients
                   = race.tasks[race.writers[Len(race.writers)]].generated

\* Two requests missed the empty cache, both called the generative client
\* and got different lists, each answered with its own, and the cache holds
\* the list of the second writer.
C33_Witness ==
    /\ enabled
    /\ race.generations >= 2
    /\ Len(race.writers) >= 2
    /\ \E t, u \in Racers :
          /\ race.writers[1] = t /\ race.writers[2] = u /\ t # u
          /\ race.tasks[t].status = 200 /\ ~race.tasks[t].from_cache
          /\ race.tasks[u].status = 200 /\ ~race.tasks[u].from_cache
          /\ race.tasks[t].ingredients # race.tasks[u].ingredients
          /\ Len(race.writers) = 2 => CachedIngredients = race.tasks[u].ingredients

(***************************************************************************)
(* The order of the parse attempts of the extraction.                      *)
(***************************************************************************)
\* The text as a whole is one JSON value.
WholeTextIsJson(text) ==
    Len(NonBlank(text)) = 1 /\ NonBlank(text)[1].kind # "prose"

\* The text holds a '[' and a later ']' and what lies between them is not
\* one JSON array.
BracketedNotJson(text) ==
    /\ \E i, j \in DOMAIN text :
          /\ i <= j /\ HasToken(text[i], "[") /\ HasToken(text[j], "]")
    /\ \A i \in DOMAIN text : text[i].kind # "array"

\* C34: when the bracketed substring of the text is not JSON and the whole
\* text is, the whole text is parsed after the bracketed parse has failed
\* and the fallback parser does not run.
C34_WholeTextAfterBracket ==
    (/\ extraction.pc = "parsed"
     /\ BracketedNotJson(extraction.text)
     /\ WholeTextIsJson(extraction.text))
        => /\ extraction.loads = <<"match", "text">>
           /\ ~extraction.fell_back

(***************************************************************************)
(* Backend work after a generation call.                                   *)
(***************************************************************************)
\* C35: when a generation call has completed, by a return, a timeout or an
\* error, the backend operation of its last attempt is no longer executing.
C35_NothingLeftRunning ==
    call.pc = "done" => ~call.in_flight

(***************************************************************************)
(* Properties of the recipe details.                                       *)
(***************************************************************************)
\* C36: a response built from a model output without total_time has
\* total_time = its own prep_time + its own cooking_time, whether the model
\* gives prep_time and cooking_time or not and whether the request gives
\* cooking_time or not.
C36_TotalIsPrepPlusCooking ==
    (recipe_details.pc = "built" /\ ~recipe_details.data.total_time.some)
        => recipe_details.response.total_time
              = recipe_details.response.prep_time
                    + recipe_details.response.cooking_time

(***************************************************************************)
(* Properties of dispatch under the event loop, with Redis.                *)
(***************************************************************************)
\* C37: with Redis configured and every Redis command served, the minute
\* counter of the identity, which counts the requests admitted while the
\* key lives, never exceeds rate_limit_per_minute, however the requests
\* interleave.
C37_RedisCounterWithinLimit ==
    (use_redis /\ ~redis_failed /\ RedisExists(redis_minute[TheClient], now))
        => redis_minute[TheClient].count <= rate_limit_per_minute

(***************************************************************************)
(* Properties of the two rate-limit backends together.                     *)
(***************************************************************************)
\* The requests of identity c admitted less than a minute ago.
AdmittedLastMinute(c) ==
    {i \in DOMAIN admitted[c] : now - admitted[c][i] < MinuteWindow}

\* C38: with Redis configured, whichever Redis commands fail, no identity
\* has more than rate_limit_per_minute requests admitted within one minute:
\* a request recorded in either backend counts in every later check.
C38_AtMostLimitAcrossBackends ==
    use_redis =>
        \A c \in Clients :
            Cardinality(AdmittedLastMinute(c)) <= rate_limit_per_minute

(***************************************************************************)
(* Properties of the status of a failed recognition.                       *)
(***************************************************************************)
\* C39: a request that reached the generative client, its image obtained
\* and valid, is never answered 400, whatever the client or its backend
\* does: 400 is kept for invalid input.
C39_GenerationFailureNot400 ==
    Generated(recognition) => recognition.status # 400

(***************************************************************************)
(* Properties of the identity a request is counted against.                *)
(***************************************************************************)
\* The header texts of the source that verify_api_key answers with 401.
InvalidKeys ==
    {key \in SentKeys :
        /\ key # <<>>
        /\ VerifyApiKey(api_key, Header(TRUE, Text(key))).status = 401}

\* The requests admitted less than a minute ago that carried such a text.
AdmittedWithInvalidKey ==
    UNION {{<<c, i>> : i \in AdmittedLastMinute(c)} :
              c \in {GetClientId(key, Host) : key \in InvalidKeys}}

\* C40: the requests one source gets admitted within a minute while sending
\* X-API-Key texts that are not valid never exceed rate_limit_per_minute,
\* however it varies the text: they are counted against one bucket.
C40_InvalidKeysOneBucket ==
    Cardinality(AdmittedWithInvalidKey) <= rate_limit_per_minute

====
